---- MODULE Spec2Model ----
(***************************************************************************)
(* The Auto-DJ engine of symphonia: TransportController (deck lifecycle    *)
(* and crossfade), TransitionEngine (mix points), QueueNavigator (cursor   *)
(* and arc position) and AutoDJMasterController (the 500ms poll loop).     *)
(*                                                                         *)
(* The engine runs on one JavaScript event loop.  A macrotask (a timer     *)
(* callback, a media event, a host call) runs to its first await; the      *)
(* continuations that are runnable without waiting for a timer or a media  *)
(* event (microtasks) run before any other macrotask.  The variable run    *)
(* holds those continuations: while it is not empty only RunStep is        *)
(* enabled.                                                                *)
(*                                                                         *)
(* Time is counted in thirds of a millisecond, so that the poll interval   *)
(* and every crossfade step duration (duration * 1000 / 60 ms) are whole   *)
(* numbers.  Volumes are counted in 1/CurveDen, so that 1.0 is CurveDen.   *)
(***************************************************************************)
EXTENDS Integers, Sequences, FiniteSets, TLC

Ms(n) == 3 * n
Sec(n) == Ms(1000 * n)
Tenths(n) == Ms(100 * n)

Min(a, b) == IF a < b THEN a ELSE b
Max(a, b) == IF a > b THEN a ELSE b

\* Longest setlist handed to start().
MaxQueue == 3
\* Longest queue handed to a QueueNavigator on its own.
MaxNavQueue == 10
MaxBase == 20
MaxPhraseBars == 2
MaxBoundaries == 16

Decks == {"A", "B"}
Other(d) == IF d = "A" THEN "B" ELSE "A"

DeckStates == {"IDLE", "LOADING", "READY", "PLAYING", "TRANSITIONING", "COMPLETE"}
Modes == {"smooth_club", "high_energy", "latin_salsa", "cinematic_ai"}
Curves == {"linear", "smooth", "exponential"}
ArcPositions == {"opener", "buildup", "peak", "cooldown", "closer"}

(***************************************************************************)
(* Track descriptors.  duration = 0 stands for an absent duration; length  *)
(* is the length of the audio itself, in seconds.                          *)
(***************************************************************************)
Track(duration, length, hasCue, mixIn, mixOut, hasOutro, outroStart, hasIntro, introEnd) ==
    [duration |-> duration, length |-> length, hasCue |-> hasCue, mixIn |-> mixIn,
     mixOut |-> mixOut, hasOutro |-> hasOutro, outroStart |-> outroStart,
     hasIntro |-> hasIntro, introEnd |-> introEnd]

\* A 20 second track without structure or cue points.
PlainTrack == Track(20, 20, FALSE, 0, 0, FALSE, 0, FALSE, 0)
\* A 20 second track with cue points.
CueTrack == Track(20, 20, TRUE, 2, 15, FALSE, 0, FALSE, 0)

\* Track A of the end-to-end scenario: 200 seconds, no structure, no cue points.
LongTrack == Track(200, 200, FALSE, 0, 0, FALSE, 0, FALSE, 0)
\* A 10 second track (a jingle) without structure or cue points.
ShortTrack == Track(10, 10, FALSE, 0, 0, FALSE, 0, FALSE, 0)

\* A 20 second track whose metadata has no duration.
UntaggedTrack == Track(0, 20, FALSE, 0, 0, FALSE, 0, FALSE, 0)

\* The library the setlists are cut from: its tracks in order, alternating.
Library(n) == IF n % 2 = 1 THEN PlainTrack ELSE CueTrack

\* The setlists handed to start(): the first n tracks of the library.
Setlist(n) == [k \in 1..n |-> Library(k)]
Setlists == {Setlist(n) : n \in 0..MaxQueue}

\* The track descriptors calculateTransitionPoint is tried on one by one:
\* cue points, outro, intro and duration each absent, present with value 0, or
\* present with a value of its own.
PlanTracks ==
    {Track(d, 20, c[1], c[2], c[3], o[1], o[2], n[1], n[2]) :
        d \in {0, 20},
        c \in {<<FALSE, 0, 0>>, <<TRUE, 0, 0>>, <<TRUE, 2, 15>>},
        o \in {<<FALSE, 0>>, <<TRUE, 0>>, <<TRUE, 17>>},
        n \in {<<FALSE, 0>>, <<TRUE, 0>>, <<TRUE, 3>>}}
PlanSetlists == {<<a, b>> : a \in PlanTracks, b \in {PlainTrack, CueTrack}}
                  \cup {<<a, b>> : a \in {PlainTrack, CueTrack}, b \in PlanTracks}

\* The setlists of the end-to-end scenario and of a set of jingles.
LongSetlists == {<<LongTrack, LongTrack>>, <<LongTrack, PlainTrack, PlainTrack>>}
ShortSetlists == {<<ShortTrack, ShortTrack, ShortTrack, ShortTrack>>}
\* Setlists of one track or more, one of them with a track without duration.
LiveSetlists == {Setlist(n) : n \in 1..MaxQueue} \cup {<<UntaggedTrack, PlainTrack>>}

(***************************************************************************)
(* An arc label is kept as what mapArcTypeToPosition reads of it: whether  *)
(* it is set (a non-empty string) and which keywords its lower-cased text  *)
(* includes.                                                               *)
(***************************************************************************)
ArcLabel(present, opener, peak, closer) ==
    [present |-> present, opener |-> opener, peak |-> peak, closer |-> closer]
NoLabel == ArcLabel(FALSE, FALSE, FALSE, FALSE)
PeakLabel == ArcLabel(TRUE, FALSE, TRUE, FALSE)
SessionLabels == {NoLabel}
\* The labels handed to a QueueNavigator on its own.
ArcLabels ==
    {NoLabel} \cup {ArcLabel(TRUE, o, p, c) : o \in BOOLEAN, p \in BOOLEAN, c \in BOOLEAN}

\* volume 1.0 is CurveDen; the step count of a crossfade
steps == 60
CurveDen == 2 * steps * steps
\* The volumes the host leaves the two audio elements at.
SessionVolumes ==
    {[d \in Decks |-> CurveDen],
     [d \in Decks |-> IF d = "A" THEN CurveDen ELSE CurveDen \div 2]}

PollIntervalMs == 500
DefaultDuration == 240

\* The last line holds what an observer has recorded, not state of the engine:
\* stopCalled (stop() was called after start()), lastNavOp (the last mutating
\* QueueNavigator call), lastPlan (the plan returned to a direct caller of
\* calculateTransitionPoint), advParity (flips at every advanceQueue call),
\* startObs (the onTrackChange callback fired by start(), and a bit that
\* flips at every start() call that returned at the isRunning guard).
\* startPc2 is the position of a second start() call made while the first is
\* at an await; timers counts the intervals set and not cleared; phrase holds
\* the locals of a detectPhraseBoundaries call; legacy holds the components/
\* AutoDJController with the two deck states and audio elements it was
\* handed, once one is constructed; initialVolume is the volume of the audio
\* elements as the host handed them over.
VARIABLES
    deckState, crossfadeInProgress,
    paused, currentTime, volume, media, deckTrack, loadWaiter, playPending,
    queue, currentIndex, setlistArcType,
    mode, isRunning, monitorInterval, pollRem,
    startPc, fades, run,
    setlist, label,
    nTrigger, nTransition, lastTransition, nComplete, advResult, tickParity,
    wasReady, lastLoad, lastFade, advParity, stopCalled, lastPlan, lastNavOp, startObs,
    startPc2, timers, phrase, legacy, initialVolume

transportVars == <<deckState, crossfadeInProgress>>
audioVars == <<paused, currentTime, volume, media, deckTrack, loadWaiter, playPending>>
navVars == <<queue, currentIndex, setlistArcType>>
masterVars == <<mode, isRunning, monitorInterval, pollRem>>
taskVars == <<startPc, fades, run>>
inputVars == <<setlist, label>>
obsVars == <<nTrigger, nTransition, lastTransition, nComplete, advResult, tickParity,
             wasReady, lastLoad, lastFade, advParity, stopCalled, lastPlan, lastNavOp, startObs>>
extVars == <<startPc2, timers, phrase, legacy, initialVolume>>
vars == <<transportVars, audioVars, navVars, masterVars, taskVars, inputVars, obsVars,
          extVars>>

(***************************************************************************)
(* TransitionEngine                                                        *)
(***************************************************************************)
modeProfiles ==
    [smooth_club  |-> [crossfadeDuration |-> 8,  transitionCurve |-> "smooth"],
     high_energy  |-> [crossfadeDuration |-> 4,  transitionCurve |-> "exponential"],
     latin_salsa  |-> [crossfadeDuration |-> 6,  transitionCurve |-> "smooth"],
     cinematic_ai |-> [crossfadeDuration |-> 12, transitionCurve |-> "smooth"]]

\* A cue of 0 is falsy in the source and falls through to the next rule.
findMixOutPoint(track) ==
    IF track.hasCue /\ track.mixOut # 0 THEN Sec(track.mixOut)
    ELSE IF track.hasOutro THEN Sec(track.outroStart)
    ELSE LET duration == IF track.duration # 0 THEN track.duration ELSE DefaultDuration
         IN  (Sec(duration) * 8) \div 10

findMixInPoint(track) ==
    IF track.hasCue /\ track.mixIn # 0 THEN Sec(track.mixIn)
    ELSE IF track.hasIntro THEN Sec(track.introEnd)
    ELSE 0

\* A faulty planner that looks the profile up under the controller's
\* configured mode instead of the mode it is given.
calculateTransitionPointConfigured(trackA, trackB, m) ==
    [mixOutPoint       |-> findMixOutPoint(trackA),
     mixInPoint        |-> findMixInPoint(trackB),
     crossfadeDuration |-> 10 * modeProfiles[mode].crossfadeDuration,
     curve             |-> modeProfiles[mode].transitionCurve,
     beatAlignment     |-> 0]

\* crossfadeDuration is counted in tenths of a second.
calculateTransitionPoint(trackA, trackB, m) ==
    [mixOutPoint       |-> findMixOutPoint(trackA),
     mixInPoint        |-> findMixInPoint(trackB),
     crossfadeDuration |-> 10 * modeProfiles[m].crossfadeDuration,
     curve             |-> modeProfiles[m].transitionCurve,
     beatAlignment     |-> 0]

(***************************************************************************)
(* QueueNavigator.  A "track or null" result is <<i>> (the 0-based queue   *)
(* index) or <<>>.                                                         *)
(***************************************************************************)
TrackAt(i) == queue[i + 1]

\* A faulty null test that takes every queue to have a current track.
NoTrackNever(q, idx) == FALSE

\* getCurrentTrack() of a navigator holding q at cursor idx returns null
NoTrack(q, idx) == ~(idx >= 0 /\ idx < Len(q))

getCurrentTrack ==
    IF currentIndex >= 0 /\ currentIndex < Len(queue) THEN <<currentIndex>> ELSE <<>>

getNextTrack ==
    LET nextIndex == currentIndex + 1
    IN  IF nextIndex < Len(queue) THEN <<nextIndex>> ELSE <<>>

\* A faulty advanceQueue that compares the cursor with the length of the queue.
advanceQueuePastEnd(q, idx) ==
    IF idx < Len(q) THEN [index |-> idx + 1, result |-> "true"]
    ELSE [index |-> idx, result |-> "false"]

\* A faulty advanceQueue that wraps around at the end of the queue.
advanceQueueWrapping(q, idx) ==
    IF idx < Len(q) - 1 THEN [index |-> idx + 1, result |-> "true"]
    ELSE [index |-> 0, result |-> "true"]

\* advanceQueue() as (new cursor, returned value)
advanceQueue(q, idx) ==
    IF idx < Len(q) - 1 THEN [index |-> idx + 1, result |-> "true"]
    ELSE [index |-> idx, result |-> "false"]

\* A faulty hasNext that compares the cursor with the length of the queue.
hasNextPastEnd == currentIndex < Len(queue)

hasNext == currentIndex < Len(queue) - 1

\* A faulty isComplete that only holds past the last index.
isCompletePastEnd == currentIndex > Len(queue) - 1

isComplete == currentIndex >= Len(queue) - 1

\* A faulty mapping whose default arc visits peak before buildup.
mapArcTypeToPositionPeakFirst(arcType, num, den) ==
    IF arcType.opener THEN (IF 10 * num < 5 * den THEN "opener" ELSE "buildup")
    ELSE IF arcType.peak THEN
        (IF 10 * num < 3 * den THEN "buildup"
         ELSE IF 10 * num < 7 * den THEN "peak" ELSE "cooldown")
    ELSE IF arcType.closer THEN (IF 10 * num < 5 * den THEN "cooldown" ELSE "closer")
    ELSE IF 10 * num < 2 * den THEN "opener"
    ELSE IF 10 * num < 4 * den THEN "peak"
    ELSE IF 10 * num < 7 * den THEN "buildup"
    ELSE IF 10 * num < 9 * den THEN "cooldown"
    ELSE "closer"

\* progress = num / den is compared with the literal bands exactly
mapArcTypeToPosition(arcType, num, den) ==
    IF arcType.opener THEN (IF 10 * num < 5 * den THEN "opener" ELSE "buildup")
    ELSE IF arcType.peak THEN
        (IF 10 * num < 3 * den THEN "buildup"
         ELSE IF 10 * num < 7 * den THEN "peak" ELSE "cooldown")
    ELSE IF arcType.closer THEN (IF 10 * num < 5 * den THEN "cooldown" ELSE "closer")
    ELSE IF 10 * num < 2 * den THEN "opener"
    ELSE IF 10 * num < 4 * den THEN "buildup"
    ELSE IF 10 * num < 7 * den THEN "peak"
    ELSE IF 10 * num < 9 * den THEN "cooldown"
    ELSE "closer"

\* A faulty arc position that takes progress to be cursor / length.
ArcPositionOfCursor(arcType, idx, len) ==
    LET num == idx
        den == len
    IN  IF den = 0 THEN "closer"
        ELSE IF arcType.present THEN mapArcTypeToPosition(arcType, num, den)
        ELSE IF 100 * num < 15 * den THEN "opener"
        ELSE IF 10 * num < 4 * den THEN "buildup"
        ELSE IF 10 * num < 7 * den THEN "peak"
        ELSE IF 10 * num < 9 * den THEN "cooldown"
        ELSE "closer"

\* With an empty queue progress is 1/0 = Infinity, which is below no band.
ArcPositionOf(arcType, idx, len) ==
    LET num == idx + 1
        den == len
    IN  IF den = 0 THEN
            (IF arcType.present /\ arcType.opener THEN "buildup"
             ELSE IF arcType.present /\ arcType.peak THEN "cooldown"
             ELSE "closer")
        ELSE IF arcType.present THEN mapArcTypeToPosition(arcType, num, den)
        ELSE IF 100 * num < 15 * den THEN "opener"
        ELSE IF 10 * num < 4 * den THEN "buildup"
        ELSE IF 10 * num < 7 * den THEN "peak"
        ELSE IF 10 * num < 9 * den THEN "cooldown"
        ELSE "closer"

getArcPosition == ArcPositionOf(setlistArcType, currentIndex, Len(queue))

\* A faulty adjustment that leaves the plan alone in every mode.
adjustTransitionForArcUnshaped(plan, arcPosition, m) == plan

\* A faulty adjustment that shapes the plan by arc position in every mode.
adjustTransitionForArcAnyMode(plan, arcPosition, m) ==
    IF arcPosition = "opener" THEN
        [plan EXCEPT !.crossfadeDuration = Max(plan.crossfadeDuration, 100),
                     !.curve = "smooth"]
    ELSE IF arcPosition = "buildup" THEN
        [plan EXCEPT !.crossfadeDuration = (plan.crossfadeDuration * 9) \div 10,
                     !.curve = "smooth"]
    ELSE IF arcPosition = "peak" THEN
        [plan EXCEPT !.crossfadeDuration = (plan.crossfadeDuration * 7) \div 10,
                     !.curve = "exponential"]
    ELSE IF arcPosition = "cooldown" THEN
        [plan EXCEPT !.crossfadeDuration = (plan.crossfadeDuration * 11) \div 10,
                     !.curve = "smooth"]
    ELSE
        [plan EXCEPT !.crossfadeDuration = Max(plan.crossfadeDuration, 120),
                     !.curve = "smooth"]

\* A faulty adjustment that also brings the mix-out point forward by the
\* change of the crossfade duration.
adjustTransitionForArcShifting(plan, arcPosition, m) ==
    LET adjusted == adjustTransitionForArcAnyMode(plan, arcPosition, m)
    IN  IF m # "cinematic_ai" THEN plan
        ELSE [adjusted EXCEPT !.mixOutPoint =
                 plan.mixOutPoint - Tenths(adjusted.crossfadeDuration - plan.crossfadeDuration)]

adjustTransitionForArc(plan, arcPosition, m) ==
    IF m # "cinematic_ai" THEN plan
    ELSE IF arcPosition = "opener" THEN
        [plan EXCEPT !.crossfadeDuration = Max(plan.crossfadeDuration, 100),
                     !.curve = "smooth"]
    ELSE IF arcPosition = "buildup" THEN
        [plan EXCEPT !.crossfadeDuration = (plan.crossfadeDuration * 9) \div 10,
                     !.curve = "smooth"]
    ELSE IF arcPosition = "peak" THEN
        [plan EXCEPT !.crossfadeDuration = (plan.crossfadeDuration * 7) \div 10,
                     !.curve = "exponential"]
    ELSE IF arcPosition = "cooldown" THEN
        [plan EXCEPT !.crossfadeDuration = (plan.crossfadeDuration * 11) \div 10,
                     !.curve = "smooth"]
    ELSE
        [plan EXCEPT !.crossfadeDuration = Max(plan.crossfadeDuration, 120),
                     !.curve = "smooth"]

(***************************************************************************)
(* TransportController: pure helpers                                       *)
(***************************************************************************)
\* A faulty easing whose smooth curve leaves out the halving of the second
\* branch.
applyCurveUnhalved(i, curve) ==
    IF curve = "linear" THEN 2 * steps * i
    ELSE IF curve = "smooth" THEN
        (IF 2 * i < steps THEN 4 * i * i
         ELSE CurveDen - 2 * (2 * steps - 2 * i) * (2 * steps - 2 * i))
    ELSE IF curve = "exponential" THEN 2 * i * i
    ELSE 2 * steps * i

\* applyCurve(i / steps, curve) as a numerator over CurveDen
applyCurve(i, curve) ==
    IF curve = "linear" THEN 2 * steps * i
    ELSE IF curve = "smooth" THEN
        (IF 2 * i < steps THEN 4 * i * i
         ELSE CurveDen - (2 * steps - 2 * i) * (2 * steps - 2 * i))
    ELSE IF curve = "exponential" THEN 2 * i * i
    ELSE 2 * steps * i

\* stepDuration = duration * 1000 / steps, for a duration in tenths of a second
stepDuration(duration) == Tenths(duration) \div steps

\* A faulty fade-out that turns the outgoing deck up instead of down.
FadeOutVolumeRising(startVolume, i, curve) ==
    (startVolume * (CurveDen + applyCurve(i, curve))) \div CurveDen

FadeOutVolume(startVolume, i, curve) ==
    (startVolume * (CurveDen - applyCurve(i, curve))) \div CurveDen

\* A faulty fade-in that ends at half of the target volume.
FadeInVolumeHalf(targetVolume, i, curve) ==
    (targetVolume * applyCurve(i, curve)) \div (2 * CurveDen)

FadeInVolume(targetVolume, i, curve) ==
    (targetVolume * applyCurve(i, curve)) \div CurveDen

\* A faulty executeCrossfade that never looks at the flag.
CrossfadeGuardOff == FALSE

\* line 88: the mutual-exclusion guard of executeCrossfade
CrossfadeGuard == crossfadeInProgress

(***************************************************************************)
(* AutoDJMasterController: pure helpers                                    *)
(***************************************************************************)
\* line 139: statusA.isPlaying ? 'A' : statusB.isPlaying ? 'B' : null
PlayingDeck ==
    IF ~paused["A"] THEN "A" ELSE IF ~paused["B"] THEN "B" ELSE "none"

\* lines 160-172: the plan of this tick
AdjustedPlan ==
    adjustTransitionForArc(
        calculateTransitionPoint(TrackAt(currentIndex), TrackAt(currentIndex + 1), mode),
        getArcPosition, mode)

\* A faulty trigger window that is open at its upper end: (-1s, 0s).
ShouldTransitionOpen(timeUntilMixOut) ==
    timeUntilMixOut < 0 /\ timeUntilMixOut > 0 - Sec(1)

\* line 177
ShouldTransition(timeUntilMixOut) ==
    timeUntilMixOut <= 0 /\ timeUntilMixOut > 0 - Sec(1)


(***************************************************************************)
(* Initial state: the controller as constructed, the two audio elements    *)
(* as the host hands them over, and the arguments start() will be given.   *)
(***************************************************************************)
Op(op, from, to, duration, curve, next) ==
    [op |-> op, from |-> from, to |-> to, duration |-> duration, curve |-> curve,
     next |-> next]
StartOp(op) == Op(op, "A", "B", 0, "smooth", 0)

\* the last call of a mutating QueueNavigator operation: its name, the cursor
\* it found, and a serial bit that tells two calls of one operation apart
NavOp(op, before, serial) == [op |-> op, before |-> before, serial |-> serial]

NoLoad == [deck |-> "A", byTransition |-> FALSE, wasPaused |-> TRUE, inFade |-> FALSE]

InitOf(setlists) ==
    /\ deckState = [d \in Decks |-> "IDLE"]
    /\ crossfadeInProgress = FALSE
    /\ paused = [d \in Decks |-> TRUE]
    /\ currentTime = [d \in Decks |-> 0]
    /\ volume \in SessionVolumes
    /\ media = [d \in Decks |-> "empty"]
    /\ deckTrack = [d \in Decks |-> <<>>]
    /\ loadWaiter = [d \in Decks |-> "none"]
    /\ playPending = [d \in Decks |-> {}]
    /\ queue = <<>>
    /\ currentIndex = 0
    /\ setlistArcType = NoLabel
    /\ mode \in Modes
    /\ isRunning = FALSE
    /\ monitorInterval = FALSE
    /\ pollRem = 0
    /\ startPc = "idle"
    /\ fades = <<>>
    /\ run = <<>>
    /\ setlist \in setlists
    /\ label \in SessionLabels
    /\ nTrigger = 0
    /\ nTransition = 0
    /\ lastTransition = <<>>
    /\ nComplete = 0
    /\ advResult = "none"
    /\ tickParity = 0
    /\ wasReady = [d \in Decks |-> FALSE]
    /\ lastLoad = NoLoad
    /\ lastFade = <<>>
    /\ advParity = 0
    /\ stopCalled = FALSE
    /\ lastPlan = <<>>
    /\ lastNavOp = NavOp("none", 0, 0)
    /\ startObs = [trackChange |-> <<>>, refused |-> 0]
    /\ startPc2 = "idle"
    /\ timers = 0
    /\ phrase = <<>>
    /\ legacy = <<>>
    /\ initialVolume = volume

Init == InitOf(Setlists)

InFade(d) == \E j \in DOMAIN fades : d \in {fades[j].from, fades[j].to}

(***************************************************************************)
(* HTMLAudioElement.  play() is refused at once (the returned promise is   *)
(* rejected) when the element has no usable source or the host denies      *)
(* playback; otherwise paused becomes false at once and the promise is     *)
(* settled by a later media task.  Assigning src and calling load() pauses *)
(* the element, rewinds it and rejects its pending play promises.          *)
(***************************************************************************)
PlayAcceptable(d) == media[d] \in {"loading", "ready"}

\* the continuations of the play promises of deck d rejected by a later task
PlayRejections(d) ==
    (IF "start" \in playPending[d] THEN <<StartOp("startRejected")>> ELSE <<>>)
    \o (IF "fade" \in playPending[d]
        THEN <<Op("fadeFailed", Other(d), d, 0, "smooth", 0)>> ELSE <<>>)

(***************************************************************************)
(* TransportController.loadNextTrack, up to its await (lines 163-178).     *)
(* rest is what is left to run of the current macrotask.                   *)
(***************************************************************************)
loadNextTrack(deck, idx, waiter, rest) ==
    /\ deckState' = [deckState EXCEPT ![deck] = "LOADING"]
    /\ media' = [media EXCEPT ![deck] = "loading"]
    /\ paused' = [paused EXCEPT ![deck] = TRUE]
    /\ currentTime' = [currentTime EXCEPT ![deck] = 0]
    /\ deckTrack' = [deckTrack EXCEPT ![deck] = <<idx>>]
    /\ loadWaiter' = [loadWaiter EXCEPT ![deck] = waiter]
    /\ playPending' = [playPending EXCEPT ![deck] = {}]
    /\ wasReady' = [wasReady EXCEPT ![deck] = FALSE]
    /\ lastLoad' = [deck |-> deck, byTransition |-> (waiter = "transition"),
                    wasPaused |-> paused[deck], inFade |-> InFade(deck)]
    /\ run' = rest \o PlayRejections(deck)

(***************************************************************************)
(* AutoDJMasterController.start, up to its first await (lines 49-69).      *)
(* The host calls start() on the fresh controller, and at any time while   *)
(* the controller is running.                                              *)
(***************************************************************************)
HostMayStart == startPc = "idle" \/ isRunning

\* A faulty start() that does not look at isRunning.
StartGuardOff == FALSE

\* line 49: if (this.isRunning) return
StartGuard == isRunning

StartCall ==
    /\ run = <<>>
    /\ HostMayStart
    /\ IF StartGuard
       THEN \* 'Auto-DJ already running'
            /\ startObs' = [startObs EXCEPT !.refused = 1 - @]
            /\ UNCHANGED <<transportVars, audioVars, navVars, startPc, run, wasReady, lastLoad,
                           lastNavOp>>
       ELSE /\ queue' = setlist
            /\ currentIndex' = 0
            /\ setlistArcType' = label
            /\ lastNavOp' = NavOp("setQueue", currentIndex, 1 - lastNavOp.serial)
            /\ IF NoTrack(setlist, 0)
               THEN /\ startPc' = "done"
                    /\ UNCHANGED <<transportVars, audioVars, wasReady, lastLoad, run>>
               ELSE /\ startPc' = "loadA"
                    /\ loadNextTrack("A", 0, "start", <<>>)
                    /\ UNCHANGED <<crossfadeInProgress, volume>>
            /\ UNCHANGED startObs
    /\ UNCHANGED <<masterVars, fades, inputVars, nTrigger, nTransition, lastTransition,
                   nComplete, advResult, tickParity, lastFade, advParity, stopCalled,
                   lastPlan, extVars>>

\* the loadeddata event of deck d (lines 168-171)
LoadedData(d) ==
    /\ run = <<>>
    /\ media[d] = "loading"
    /\ media' = [media EXCEPT ![d] = "ready"]
    /\ deckState' = [deckState EXCEPT ![d] = "READY"]
    /\ wasReady' = [wasReady EXCEPT ![d] = TRUE]
    /\ loadWaiter' = [loadWaiter EXCEPT ![d] = "none"]
    /\ run' = IF loadWaiter[d] = "start"
              THEN <<StartOp(IF d = "A" THEN "startLoadedA" ELSE "startLoadedB")>>
              ELSE IF loadWaiter[d] = "start2"
              THEN <<StartOp(IF d = "A" THEN "start2LoadedA" ELSE "start2LoadedB")>>
              ELSE <<>>
    /\ UNCHANGED <<crossfadeInProgress, paused, currentTime, volume, deckTrack, playPending,
                   navVars, masterVars, startPc, fades, inputVars, nTrigger, nTransition,
                   lastTransition, nComplete, advResult, tickParity, lastLoad, lastFade,
                   advParity, stopCalled, lastPlan, lastNavOp, startObs, extVars>>

\* A faulty onerror handler that leaves the deck Loading.
onerrorStateLoading == "LOADING"

\* line 174: the state the onerror handler sets
onerrorState == "IDLE"

\* the error event of deck d (lines 173-176)
LoadError(d) ==
    /\ run = <<>>
    /\ media[d] = "loading"
    /\ media' = [media EXCEPT ![d] = "error"]
    /\ deckState' = [deckState EXCEPT ![d] = onerrorState]
    /\ loadWaiter' = [loadWaiter EXCEPT ![d] = "none"]
    /\ playPending' = [playPending EXCEPT ![d] = {}]
    /\ startPc' = IF loadWaiter[d] = "start" THEN "failed" ELSE startPc
    /\ startPc2' = IF loadWaiter[d] = "start2" THEN "failed" ELSE startPc2
    /\ run' = PlayRejections(d)
    /\ UNCHANGED <<crossfadeInProgress, paused, currentTime, volume, deckTrack,
                   navVars, masterVars, fades, inputVars, obsVars, timers, phrase, legacy,
                   initialVolume>>

\* the media task that resolves the pending play promises of deck d
PlayResolved(d) ==
    /\ run = <<>>
    /\ playPending[d] # {}
    /\ media[d] = "ready"
    /\ playPending' = [playPending EXCEPT ![d] = {}]
    /\ run' = (IF "start" \in playPending[d] THEN <<StartOp("startPlaying")>> ELSE <<>>)
              \o (IF "start2" \in playPending[d] THEN <<StartOp("start2Playing")>> ELSE <<>>)
              \o (IF "fade" \in playPending[d]
                  THEN <<Op("fadeLoop", Other(d), d, 0, "smooth", 0)>> ELSE <<>>)
    /\ UNCHANGED <<transportVars, paused, currentTime, volume, media, deckTrack, loadWaiter,
                   navVars, masterVars, startPc, fades, inputVars, obsVars, extVars>>

\* A faulty startPlayback that marks the deck Playing before play() settles.
stateAfterRefusalPlaying(state) == "PLAYING"

\* lines 42-45: the catch of startPlayback sets no state
stateAfterRefusal(state) == state

\* startPlayback('A') of start(): audioElement.play() up to the await (line 40)
startPlaybackA ==
    \/ /\ PlayAcceptable("A")
       /\ paused' = [paused EXCEPT !["A"] = FALSE]
       /\ playPending' = [playPending EXCEPT !["A"] = @ \cup {"start"}]
       /\ startPc' = "playA"
       /\ UNCHANGED deckState
    \/ \* play() is refused: catch, rethrow; start() rejects
       /\ startPc' = "playFailed"
       /\ deckState' = [deckState EXCEPT !["A"] = stateAfterRefusal(@)]
       /\ UNCHANGED <<paused, playPending>>

\* start() after the load of deck A (lines 70-80)
StartLoadedA ==
    /\ run # <<>>
    /\ Head(run).op = "startLoadedA"
    /\ IF Len(queue) > 1
       THEN /\ loadNextTrack("B", 1, "start", Tail(run))
            /\ startPc' = "loadB"
            /\ UNCHANGED <<crossfadeInProgress, volume>>
       ELSE /\ startPlaybackA
            /\ run' = Tail(run)
            /\ UNCHANGED <<crossfadeInProgress, currentTime, volume, media, deckTrack,
                           loadWaiter, wasReady, lastLoad>>
    /\ UNCHANGED <<navVars, masterVars, fades, inputVars, nTrigger, nTransition,
                   lastTransition, nComplete, advResult, tickParity, lastFade, advParity,
                   stopCalled, lastPlan, lastNavOp, startObs, extVars>>

\* start() after the load of deck B (lines 76-80)
StartLoadedB ==
    /\ run # <<>>
    /\ Head(run).op = "startLoadedB"
    /\ startPlaybackA
    /\ run' = Tail(run)
    /\ UNCHANGED <<crossfadeInProgress, currentTime, volume, media, deckTrack, loadWaiter,
                   navVars, masterVars, fades, inputVars, obsVars, extVars>>

\* startPlayback after the play promise resolved (line 41), start() lines 81-85
StartPlaying ==
    /\ run # <<>>
    /\ Head(run).op = "startPlaying"
    /\ deckState' = [deckState EXCEPT !["A"] = "PLAYING"]
    /\ isRunning' = TRUE
    /\ monitorInterval' = TRUE
    /\ pollRem' = Ms(PollIntervalMs)
    /\ startPc' = "done"
    /\ startObs' = [startObs EXCEPT !.trackChange = <<0, "A">>]
    /\ timers' = timers + 1
    /\ run' = Tail(run)
    /\ UNCHANGED <<crossfadeInProgress, audioVars, navVars, mode, fades, inputVars, nTrigger,
                   nTransition, lastTransition, nComplete, advResult, tickParity, wasReady,
                   lastLoad, lastFade, advParity, stopCalled, lastPlan, lastNavOp,
                   startPc2, phrase, legacy, initialVolume>>

(***************************************************************************)
(* AutoDJMasterController.checkForTransition: one firing of the 500ms      *)
(* interval, up to the call of executeCrossfade (lines 122-190, 202-207).  *)
(***************************************************************************)
PollTick ==
    /\ run = <<>>
    /\ monitorInterval
    /\ pollRem = 0
    /\ tickParity' = 1 - tickParity
    /\ LET playingDeck == PlayingDeck
           waitingDeck == Other(playingDeck)
       IN  IF ~isRunning \/ playingDeck = "none"
           THEN /\ pollRem' = Ms(PollIntervalMs)
                /\ UNCHANGED <<isRunning, monitorInterval, currentTime, run, nTrigger,
                               nComplete, timers>>
           ELSE IF getCurrentTrack = <<>> \/ getNextTrack = <<>>
           THEN IF isComplete
                THEN \* stop() and onComplete
                     /\ isRunning' = FALSE
                     /\ monitorInterval' = FALSE
                     /\ pollRem' = 0
                     /\ nComplete' = nComplete + 1
                     /\ timers' = timers - 1
                     /\ UNCHANGED <<currentTime, run, nTrigger>>
                ELSE /\ pollRem' = Ms(PollIntervalMs)
                     /\ UNCHANGED <<isRunning, monitorInterval, currentTime, run, nTrigger,
                                    nComplete, timers>>
           ELSE LET adjustedPlan == AdjustedPlan
                    timeUntilMixOut == adjustedPlan.mixOutPoint - currentTime[playingDeck]
                IN  /\ pollRem' = Ms(PollIntervalMs)
                    /\ IF ShouldTransition(timeUntilMixOut)
                       THEN \* executeTransition: setCuePoint, then executeCrossfade
                            /\ currentTime' = [currentTime EXCEPT
                                                 ![waitingDeck] = adjustedPlan.mixInPoint]
                            /\ run' = <<Op("crossfade", playingDeck, waitingDeck,
                                           adjustedPlan.crossfadeDuration,
                                           adjustedPlan.curve, currentIndex + 1)>>
                            /\ nTrigger' = nTrigger + 1
                       ELSE UNCHANGED <<currentTime, run, nTrigger>>
                    /\ UNCHANGED <<isRunning, monitorInterval, nComplete, timers>>
    /\ UNCHANGED <<transportVars, paused, volume, media, deckTrack, loadWaiter, playPending,
                   navVars, mode, startPc, fades, inputVars, nTransition, lastTransition,
                   advResult, wasReady, lastLoad, lastFade, advParity, stopCalled, lastPlan,
                   lastNavOp, startObs, startPc2, phrase, legacy, initialVolume>>

\* What executeTransition still runs once executeCrossfade has thrown: the
\* error is rethrown (part_007 line 131) and the catch of executeTransition
\* only logs it (line 236).
OnCrossfadeError(o) == <<>>

(***************************************************************************)
(* TransportController.executeCrossfade, from the call to its first await  *)
(* (lines 88-119).  The record of a fade holds the locals of the call, the *)
(* requested duration and the sum of the sleeps that have finished.        *)
(***************************************************************************)
Fade(o, phase) ==
    [from |-> o.from, to |-> o.to, startVolume |-> volume[o.from],
     targetVolume |-> volume[o.to], i |-> 0, stepDuration |-> stepDuration(o.duration),
     curve |-> o.curve, phase |-> phase,
     rem |-> IF phase = "loop" THEN stepDuration(o.duration) ELSE 0, next |-> o.next,
     duration |-> o.duration, waited |-> 0]

ExecuteCrossfade ==
    /\ run # <<>>
    /\ Head(run).op = "crossfade"
    /\ LET o == Head(run)
           continuation == Op("afterCrossfade", o.from, o.to, o.duration, o.curve, o.next)
       IN  IF CrossfadeGuard
           THEN \* 'Crossfade already in progress, skipping'
                /\ run' = <<continuation>> \o Tail(run)
                /\ UNCHANGED <<transportVars, paused, volume, playPending, fades>>
           ELSE /\ deckState' = [d \in Decks |->
                                   IF d \in {o.from, o.to} THEN "TRANSITIONING"
                                   ELSE deckState[d]]
                /\ IF paused[o.to]
                   THEN \/ \* toAudio.play() is accepted; the promise is pending
                           /\ PlayAcceptable(o.to)
                           /\ crossfadeInProgress' = TRUE
                           /\ paused' = [paused EXCEPT ![o.to] = FALSE]
                           /\ playPending' = [playPending EXCEPT ![o.to] = @ \cup {"fade"}]
                           /\ fades' = Append(fades, Fade(o, "play"))
                           /\ run' = Tail(run)
                           /\ UNCHANGED volume
                        \/ \* toAudio.play() is refused: catch, finally
                           /\ crossfadeInProgress' = FALSE
                           /\ run' = OnCrossfadeError(o) \o Tail(run)
                           /\ UNCHANGED <<paused, playPending, fades, volume>>
                   ELSE \* step 0 of the loop, then the first sleep
                        /\ crossfadeInProgress' = TRUE
                        /\ fades' = Append(fades, Fade(o, "loop"))
                        /\ volume' = [volume EXCEPT
                                        ![o.from] = FadeOutVolume(volume[o.from], 0, o.curve),
                                        ![o.to] = FadeInVolume(volume[o.to], 0, o.curve)]
                        /\ run' = Tail(run)
                        /\ UNCHANGED <<paused, playPending>>
    /\ UNCHANGED <<currentTime, media, deckTrack, loadWaiter, navVars, masterVars, startPc,
                   inputVars, obsVars, extVars>>

\* the loop starts once the play promise of the incoming deck resolved (line 105)
FadeLoopStart ==
    /\ run # <<>>
    /\ Head(run).op = "fadeLoop"
    /\ LET d == Head(run).to
           waiting(j) == fades[j].phase = "play" /\ fades[j].to = d
           js == {j \in DOMAIN fades : waiting(j)}
       IN  /\ fades' = [j \in DOMAIN fades |->
                          IF waiting(j)
                          THEN [fades[j] EXCEPT !.phase = "loop", !.i = 0,
                                                !.rem = fades[j].stepDuration]
                          ELSE fades[j]]
           /\ volume' = IF js = {} THEN volume
                        ELSE LET f == fades[CHOOSE j \in js : \A k \in js : j <= k]
                             IN  [volume EXCEPT
                                    ![f.from] = FadeOutVolume(f.startVolume, 0, f.curve),
                                    ![f.to] = FadeInVolume(f.targetVolume, 0, f.curve)]
    /\ run' = Tail(run)
    /\ UNCHANGED <<transportVars, paused, currentTime, media, deckTrack, loadWaiter,
                   playPending, navVars, masterVars, startPc, inputVars, obsVars, extVars>>

\* the play promise of the incoming deck was rejected: catch, finally (lines 129-134)
\* and the catch of executeTransition (line 236)
FadeFailed ==
    /\ run # <<>>
    /\ Head(run).op = "fadeFailed"
    /\ LET d == Head(run).to
       IN  fades' = SelectSeq(fades, LAMBDA f : ~(f.phase = "play" /\ f.to = d))
    /\ crossfadeInProgress' = FALSE
    /\ run' = OnCrossfadeError(Head(run)) \o Tail(run)
    /\ UNCHANGED <<deckState, audioVars, navVars, masterVars, startPc, inputVars, obsVars, extVars>>

RemoveAt(s, j) == SubSeq(s, 1, j - 1) \o SubSeq(s, j + 1, Len(s))

\* the timer of a sleep fired: the next step of the loop, or lines 122-134
FadeStep(j) ==
    /\ run = <<>>
    /\ j \in DOMAIN fades
    /\ fades[j].phase = "loop"
    /\ fades[j].rem = 0
    /\ LET f == fades[j]
       IN  IF f.i < steps
           THEN /\ fades' = [fades EXCEPT ![j].i = f.i + 1, ![j].rem = f.stepDuration,
                                          ![j].waited = f.waited + f.stepDuration]
                /\ volume' = [volume EXCEPT
                                ![f.from] = FadeOutVolume(f.startVolume, f.i + 1, f.curve),
                                ![f.to] = FadeInVolume(f.targetVolume, f.i + 1, f.curve)]
                /\ UNCHANGED <<transportVars, paused, run, lastFade>>
           ELSE /\ paused' = [paused EXCEPT ![f.from] = TRUE]
                /\ lastFade' = <<[f EXCEPT !.waited = f.waited + f.stepDuration]>>
                /\ volume' = [volume EXCEPT ![f.from] = f.startVolume]
                /\ deckState' = [d \in Decks |->
                                   IF d = f.to THEN "PLAYING"
                                   ELSE IF d = f.from THEN "COMPLETE" ELSE deckState[d]]
                /\ crossfadeInProgress' = FALSE
                /\ fades' = RemoveAt(fades, j)
                /\ run' = <<Op("afterCrossfade", f.from, f.to, 0, f.curve, f.next)>>
    /\ UNCHANGED <<currentTime, media, deckTrack, loadWaiter, playPending, navVars,
                   masterVars, startPc, inputVars, nTrigger, nTransition, lastTransition,
                   nComplete, advResult, tickParity, wasReady, lastLoad, advParity,
                   stopCalled, lastPlan, lastNavOp, startObs, extVars>>

(***************************************************************************)
(* AutoDJMasterController.executeTransition after the await of             *)
(* executeCrossfade (lines 216-227).                                       *)
(***************************************************************************)
AfterCrossfade ==
    /\ run # <<>>
    /\ Head(run).op = "afterCrossfade"
    /\ LET o == Head(run)
           adv == advanceQueue(queue, currentIndex)
       IN  /\ nTransition' = nTransition + 1
           /\ lastTransition' = <<o.from, o.to>>
           /\ currentIndex' = adv.index
           /\ advResult' = adv.result
           /\ advParity' = 1 - advParity
           /\ lastNavOp' = NavOp("advanceQueue", currentIndex, 1 - lastNavOp.serial)
           /\ IF adv.index + 1 < Len(queue)
              THEN loadNextTrack(o.from, adv.index + 1, "transition", Tail(run))
              ELSE /\ run' = Tail(run)
                   /\ UNCHANGED <<deckState, media, paused, currentTime, deckTrack,
                                  loadWaiter, playPending, wasReady, lastLoad>>
    /\ UNCHANGED <<crossfadeInProgress, volume, queue, setlistArcType, masterVars, startPc,
                   fades, inputVars, nTrigger, nComplete, tickParity, lastFade, stopCalled,
                   lastPlan, startObs, extVars>>

(***************************************************************************)
(* The host: stop() and setMode()                                          *)
(***************************************************************************)
Stop ==
    /\ run = <<>>
    /\ isRunning' = FALSE
    /\ monitorInterval' = FALSE
    /\ pollRem' = 0
    /\ stopCalled' = (stopCalled \/ startPc # "idle")
    /\ timers' = IF monitorInterval THEN timers - 1 ELSE timers
    /\ UNCHANGED <<transportVars, audioVars, navVars, mode, taskVars, inputVars, nTrigger,
                   nTransition, lastTransition, nComplete, advResult, tickParity, wasReady,
                   lastLoad, lastFade, advParity, lastNavOp, lastPlan, startObs,
                   startPc2, phrase, legacy, initialVolume>>

\* The host chooses the mode before it starts the session.
SetMode(m) ==
    /\ run = <<>>
    /\ startPc = "idle"
    /\ mode' = m
    /\ UNCHANGED <<transportVars, audioVars, navVars, isRunning, monitorInterval, pollRem,
                   taskVars, inputVars, obsVars, extVars>>

(***************************************************************************)
(* Time passes until the next timer is due.  A deck that is not paused     *)
(* and has its data plays on, up to the end of its track, where the        *)
(* element pauses itself (playback has ended).                             *)
(***************************************************************************)
Timers ==
    (IF monitorInterval THEN {pollRem} ELSE {})
    \cup {fades[j].rem : j \in {k \in DOMAIN fades : fades[k].phase = "loop"}}

Advancing(d) == ~paused[d] /\ media[d] = "ready" /\ deckTrack[d] # <<>>

\* A play promise that can be resolved is resolved before the next timer is due.
PlayDue == \E d \in Decks : playPending[d] # {} /\ media[d] = "ready"

AdvanceTime ==
    /\ run = <<>>
    /\ ~PlayDue
    /\ Timers # {}
    /\ 0 \notin Timers
    /\ LET dt == CHOOSE t \in Timers : \A u \in Timers : t <= u
       IN  /\ pollRem' = IF monitorInterval THEN pollRem - dt ELSE pollRem
           /\ fades' = [j \in DOMAIN fades |->
                          IF fades[j].phase = "loop"
                          THEN [fades[j] EXCEPT !.rem = @ - dt] ELSE fades[j]]
           /\ currentTime' = [d \in Decks |->
                                IF Advancing(d)
                                THEN Min(currentTime[d] + dt,
                                         Max(currentTime[d],
                                             Sec(TrackAt(deckTrack[d][1]).length)))
                                ELSE currentTime[d]]
           /\ paused' = [d \in Decks |->
                           paused[d] \/ (Advancing(d) /\ currentTime[d] + dt >=
                                                         Sec(TrackAt(deckTrack[d][1]).length))]
    /\ UNCHANGED <<transportVars, volume, media, deckTrack, loadWaiter, playPending,
                   navVars, mode, isRunning, monitorInterval, startPc, run, inputVars,
                   obsVars, extVars>>

Next ==
    \/ StartCall
    \/ \E d \in Decks : LoadedData(d)
    \/ \E d \in Decks : LoadError(d)
    \/ \E d \in Decks : PlayResolved(d)
    \/ StartLoadedA
    \/ StartLoadedB
    \/ StartPlaying
    \/ PollTick
    \/ ExecuteCrossfade
    \/ FadeLoopStart
    \/ FadeFailed
    \/ \E j \in DOMAIN fades : FadeStep(j)
    \/ AfterCrossfade
    \/ Stop
    \/ \E m \in Modes : SetMode(m)
    \/ AdvanceTime

Spec == Init /\ [][Next]_vars

\* What the event loop does by itself: due timers, media tasks that settle a
\* play promise, continuations, and the passing of time.  Loads and host
\* calls may never happen.
EngineStep ==
    \/ \E d \in Decks : PlayResolved(d)
    \/ StartLoadedA
    \/ StartLoadedB
    \/ StartPlaying
    \/ PollTick
    \/ ExecuteCrossfade
    \/ FadeLoopStart
    \/ FadeFailed
    \/ \E j \in DOMAIN fades : FadeStep(j)
    \/ AfterCrossfade
    \/ AdvanceTime

FairSpec == Spec /\ WF_vars(EngineStep)

(***************************************************************************)
(* A second start() call that overlaps the first: the host calls start()   *)
(* again while the first call is still awaiting a load or the play promise *)
(* of deck A.  isRunning is still false, so the call goes on (line 49); it *)
(* shares the navigator, the transport and the two audio elements with the *)
(* first call.  Assigning onloadeddata / onerror again replaces the        *)
(* handlers of a load that is still awaited (part_007 lines 166-176).      *)
(***************************************************************************)
StartCallOverlap ==
    /\ run = <<>>
    /\ startPc \in {"loadA", "loadB", "playA"}
    /\ startPc2 = "idle"
    /\ ~StartGuard
    /\ queue' = setlist
    /\ currentIndex' = 0
    /\ setlistArcType' = label
    /\ lastNavOp' = NavOp("setQueue", currentIndex, 1 - lastNavOp.serial)
    /\ startPc2' = "loadA"
    /\ loadNextTrack("A", 0, "start2", <<>>)
    /\ UNCHANGED <<crossfadeInProgress, volume, masterVars, startPc, fades, inputVars,
                   nTrigger, nTransition, lastTransition, nComplete, advResult, tickParity,
                   lastFade, advParity, stopCalled, lastPlan, startObs, timers, phrase,
                   legacy, initialVolume>>

\* the play promise awaited by the first call was rejected: startPlayback
\* rethrows (lines 42-45) and start() rejects
StartRejected ==
    /\ run # <<>>
    /\ Head(run).op = "startRejected"
    /\ startPc' = "playFailed"
    /\ deckState' = [deckState EXCEPT !["A"] = stateAfterRefusal(@)]
    /\ run' = Tail(run)
    /\ UNCHANGED <<crossfadeInProgress, audioVars, navVars, masterVars, fades, inputVars,
                   obsVars, extVars>>

\* startPlayback('A') of the second call, up to the await (line 40)
startPlaybackA2 ==
    \/ /\ PlayAcceptable("A")
       /\ paused' = [paused EXCEPT !["A"] = FALSE]
       /\ playPending' = [playPending EXCEPT !["A"] = @ \cup {"start2"}]
       /\ startPc2' = "playA"
       /\ UNCHANGED deckState
    \/ /\ startPc2' = "playFailed"
       /\ deckState' = [deckState EXCEPT !["A"] = stateAfterRefusal(@)]
       /\ UNCHANGED <<paused, playPending>>

\* the second call after the load of deck A (lines 70-80)
Start2LoadedA ==
    /\ run # <<>>
    /\ Head(run).op = "start2LoadedA"
    /\ IF Len(queue) > 1
       THEN /\ loadNextTrack("B", 1, "start2", Tail(run))
            /\ startPc2' = "loadB"
            /\ UNCHANGED <<crossfadeInProgress, volume>>
       ELSE /\ startPlaybackA2
            /\ run' = Tail(run)
            /\ UNCHANGED <<crossfadeInProgress, currentTime, volume, media, deckTrack,
                           loadWaiter, wasReady, lastLoad>>
    /\ UNCHANGED <<navVars, masterVars, startPc, fades, inputVars, nTrigger, nTransition,
                   lastTransition, nComplete, advResult, tickParity, lastFade, advParity,
                   stopCalled, lastPlan, lastNavOp, startObs, timers, phrase, legacy,
                   initialVolume>>

\* the second call after the load of deck B (lines 76-80)
Start2LoadedB ==
    /\ run # <<>>
    /\ Head(run).op = "start2LoadedB"
    /\ startPlaybackA2
    /\ run' = Tail(run)
    /\ UNCHANGED <<crossfadeInProgress, currentTime, volume, media, deckTrack, loadWaiter,
                   navVars, masterVars, startPc, fades, inputVars, obsVars, timers, phrase,
                   legacy, initialVolume>>

\* the second call after its play promise resolved (lines 41, 81-85): a new
\* interval, whose handle replaces the one held in monitorInterval
Start2Playing ==
    /\ run # <<>>
    /\ Head(run).op = "start2Playing"
    /\ deckState' = [deckState EXCEPT !["A"] = "PLAYING"]
    /\ isRunning' = TRUE
    /\ monitorInterval' = TRUE
    /\ pollRem' = Ms(PollIntervalMs)
    /\ startPc2' = "done"
    /\ startObs' = [startObs EXCEPT !.trackChange = <<0, "A">>]
    /\ timers' = timers + 1
    /\ run' = Tail(run)
    /\ UNCHANGED <<crossfadeInProgress, audioVars, navVars, mode, startPc, fades, inputVars,
                   nTrigger, nTransition, lastTransition, nComplete, advResult, tickParity,
                   wasReady, lastLoad, lastFade, advParity, stopCalled, lastPlan, lastNavOp,
                   phrase, legacy, initialVolume>>

\* start() and stop() up to the creation and the cancelling of the poll
\* timers; the ticks themselves are left out
OverlapNext ==
    \/ StartCall
    \/ StartCallOverlap
    \/ \E d \in Decks : LoadedData(d)
    \/ \E d \in Decks : LoadError(d)
    \/ \E d \in Decks : PlayResolved(d)
    \/ StartLoadedA
    \/ StartLoadedB
    \/ StartPlaying
    \/ StartRejected
    \/ Start2LoadedA
    \/ Start2LoadedB
    \/ Start2Playing
    \/ Stop

OverlapSpec == Init /\ [][OverlapNext]_vars

(***************************************************************************)
(* A session in which nothing fails and the host does not interfere: one   *)
(* start() call, every load ends in loadeddata, every play() is accepted,  *)
(* no stop().  The event loop runs on and every load completes.            *)
(***************************************************************************)
LiveStep ==
    \/ \E d \in Decks : LoadedData(d)
    \/ \E d \in Decks : PlayResolved(d)
    \/ StartLoadedA /\ startPc' # "playFailed"
    \/ StartLoadedB /\ startPc' # "playFailed"
    \/ StartPlaying
    \/ PollTick
    \/ ExecuteCrossfade /\ crossfadeInProgress'
    \/ FadeLoopStart
    \/ \E j \in DOMAIN fades : FadeStep(j)
    \/ AfterCrossfade
    \/ AdvanceTime

LiveNext ==
    \/ StartCall /\ startPc = "idle"
    \/ LiveStep

LiveInit == InitOf(LiveSetlists)

LiveSpec == LiveInit /\ [][LiveNext]_vars /\ WF_vars(LiveStep)

\* the end-to-end scenario: setlists of 200 second tracks
InitE2E == InitOf(LongSetlists)
SpecE2E == InitE2E /\ [][Next]_vars

\* a setlist of four jingles
InitShort == InitOf(ShortSetlists)
SpecShort == InitShort /\ [][Next]_vars

(***************************************************************************)
(* TransitionEngine on its own: calculateTransitionPoint called on the     *)
(* first two tracks of a list, for any mode, whatever mode the controller  *)
(* is configured with.  lastPlan holds the returned plan and the mode      *)
(* argument of the call.                                                   *)
(***************************************************************************)
PlanCall(m) ==
    /\ lastPlan' = <<calculateTransitionPoint(setlist[1], setlist[2], m), m>>
    /\ UNCHANGED <<transportVars, audioVars, navVars, masterVars,
                   taskVars, inputVars, nTrigger, nTransition, lastTransition, nComplete,
                   advResult, tickParity, wasReady, lastLoad, lastFade, advParity,
                   stopCalled, lastNavOp, startObs, extVars>>

PlanInit == InitOf(PlanSetlists) /\ mode = "smooth_club" /\ volume = [d \in Decks |-> CurveDen]

PlanNext ==
    \/ \E m \in Modes : PlanCall(m)
    \/ \E m \in Modes : SetMode(m)

PlanSpec == PlanInit /\ [][PlanNext]_vars

(***************************************************************************)
(* TransitionEngine.detectPhraseBoundaries on its own (lines 93-110).      *)
(* phrase is <<>> before the call and afterwards holds the arguments, the  *)
(* loop variable and the array built so far.  Times are counted in units   *)
(* of 1/bpm seconds, so that phraseLength = phraseBars * 4 * 60 / bpm is   *)
(* the integer 240 * phraseBars and time < duration reads                  *)
(* time < duration * bpm.  A bpm or duration of 0 stands for a missing     *)
(* (or zero, equally falsy) value.  The array is recorded up to            *)
(* MaxBoundaries entries; the loop itself has no such limit.               *)
(***************************************************************************)
PhraseBpms == {0, 60, 120}
PhraseDurations == {0, 8, 15, 16, 30}

phraseLength(phraseBars) == (phraseBars * 4) * 60

DetectCall(bpm, duration, phraseBars) ==
    /\ phrase = <<>>
    /\ phrase' = <<[bpm |-> bpm, duration |-> duration, phraseBars |-> phraseBars,
                    time |-> 0, boundaries |-> <<>>,
                    pc |-> IF bpm = 0 \/ duration = 0 THEN "returned" ELSE "loop"]>>
    /\ UNCHANGED <<transportVars, audioVars, navVars, masterVars, taskVars, inputVars,
                   obsVars, startPc2, timers, legacy, initialVolume>>

\* one evaluation of the loop condition, and one iteration if it holds
DetectLoop ==
    /\ phrase # <<>>
    /\ phrase[1].pc = "loop"
    /\ LET p == phrase[1]
       IN  IF p.time < p.duration * p.bpm
           THEN phrase' = <<[p EXCEPT
                              !.boundaries = IF Len(@) < MaxBoundaries
                                             THEN Append(@, p.time) ELSE @,
                              !.time = @ + phraseLength(p.phraseBars)]>>
           ELSE phrase' = <<[p EXCEPT !.pc = "returned"]>>
    /\ UNCHANGED <<transportVars, audioVars, navVars, masterVars, taskVars, inputVars,
                   obsVars, startPc2, timers, legacy, initialVolume>>

PhraseInit ==
    InitOf({<<>>}) /\ mode = "smooth_club" /\ volume = [d \in Decks |-> CurveDen]

PhraseNext ==
    \/ \E bpm \in PhraseBpms, duration \in PhraseDurations, phraseBars \in 0..MaxPhraseBars :
          DetectCall(bpm, duration, phraseBars)
    \/ DetectLoop

\* the loop is synchronous code: it runs on as long as its condition holds
PhraseSpec == PhraseInit /\ [][PhraseNext]_vars /\ WF_vars(DetectLoop)

(***************************************************************************)
(* adjustTransitionForArc on its own: called with a plan of any base       *)
(* crossfade duration (whole seconds up to MaxBase) and curve, at any arc  *)
(* position and in any mode.  lastPlan holds the returned plan, the three  *)
(* arguments of the call and the plan object passed in as it is after the  *)
(* call.                                                                   *)
(***************************************************************************)
PlanPoints ==
    {[mixOutPoint |-> Sec(16), mixInPoint |-> 0, beatAlignment |-> 0],
     [mixOutPoint |-> Sec(192), mixInPoint |-> Sec(2), beatAlignment |-> Ms(10)]}

BasePlans ==
    {[mixOutPoint |-> pt.mixOutPoint, mixInPoint |-> pt.mixInPoint,
      crossfadeDuration |-> 10 * b, curve |-> c, beatAlignment |-> pt.beatAlignment] :
        pt \in PlanPoints, b \in 0..MaxBase, c \in Curves}

\* line 124: the adjustments are written to a shallow copy ({ ...plan }), and
\* outside Cinematic AI nothing is written; the object passed in keeps its
\* fields.
planAfterAdjust(plan, arcPosition, m) == plan

AdjustCall(plan, arcPosition, m) ==
    /\ lastPlan' = <<adjustTransitionForArc(plan, arcPosition, m), m, arcPosition, plan,
                     planAfterAdjust(plan, arcPosition, m)>>
    /\ UNCHANGED <<transportVars, audioVars, navVars, masterVars,
                   taskVars, inputVars, nTrigger, nTransition, lastTransition, nComplete,
                   advResult, tickParity, wasReady, lastLoad, lastFade, advParity,
                   stopCalled, lastNavOp, startObs, extVars>>

ArcInit ==
    InitOf({<<>>}) /\ mode = "smooth_club" /\ volume = [d \in Decks |-> CurveDen]

ArcNext == \E plan \in BasePlans, pos \in ArcPositions, m \in Modes : AdjustCall(plan, pos, m)

ArcSpec == ArcInit /\ [][ArcNext]_vars

(***************************************************************************)
(* QueueNavigator on its own: a navigator constructed with the default     *)
(* empty queue, and its operations called in any order.                    *)
(***************************************************************************)
NavQueues == {Setlist(n) : n \in 0..MaxNavQueue}

nonNavVars == <<transportVars, audioVars, masterVars, taskVars, inputVars, nTrigger,
                nTransition, lastTransition, nComplete, tickParity, wasReady, lastLoad,
                lastFade>>

\* setQueue(tracks, arcType) (lines 162-166)
NavSetQueue(tracks, arcType) ==
    /\ queue' = tracks
    /\ setlistArcType' = arcType
    /\ currentIndex' = 0
    /\ lastNavOp' = NavOp("setQueue", currentIndex, 1 - lastNavOp.serial)
    /\ UNCHANGED <<nonNavVars, advResult, advParity, stopCalled, lastPlan, startObs, extVars>>

\* advanceQueue() (lines 57-63)
NavAdvanceQueue ==
    /\ LET adv == advanceQueue(queue, currentIndex)
       IN  /\ currentIndex' = adv.index
           /\ advResult' = adv.result
    /\ advParity' = 1 - advParity
    /\ lastNavOp' = NavOp("advanceQueue", currentIndex, 1 - lastNavOp.serial)
    /\ UNCHANGED <<nonNavVars, queue, setlistArcType, stopCalled, lastPlan, startObs, extVars>>

\* reset() (lines 171-173)
NavReset ==
    /\ currentIndex' = 0
    /\ lastNavOp' = NavOp("reset", currentIndex, 1 - lastNavOp.serial)
    /\ UNCHANGED <<nonNavVars, queue, setlistArcType, advResult, advParity, stopCalled, lastPlan, startObs, extVars>>

NavInit == InitOf({<<>>}) /\ mode = "smooth_club" /\ volume = [d \in Decks |-> CurveDen]

NavNext ==
    \/ \E tracks \in NavQueues, arcType \in ArcLabels : NavSetQueue(tracks, arcType)
    \/ NavAdvanceQueue
    \/ NavReset

NavSpec == NavInit /\ [][NavNext]_vars

(***************************************************************************)
(* components/AutoDJController on its own.  legacy is empty until a        *)
(* controller is constructed; then it holds one record: the config flag    *)
(* enabled, transitionInProgress, whether monitorInterval is set, the two  *)
(* DeckState objects handed to startMonitoring, the two audio elements     *)
(* (paused, currentTime, volume in LegacyDen-ths, rounded down), the       *)
(* performTransition calls that are at an await, and what an observer has  *)
(* counted: calls started, play requests rejected, onTransition callbacks. *)
(***************************************************************************)
MaxLegacyTransitions == 2

LegacySteps == 50
LegacyDen == 5 * 2 * LegacySteps * LegacySteps
LegacyCrossfadeDuration == 8
toEndVolume == (8 * LegacyDen) \div 10

LegacyTrack(duration, cueMixOut, outroStart, cueMixIn, introStart) ==
    [duration |-> duration, cueMixOut |-> cueMixOut, outroStart |-> outroStart,
     cueMixIn |-> cueMixIn, introStart |-> introStart]

\* DeckState (lines 18-23); track is empty for null
LegacyDeck(track, isPlaying, time) ==
    [track |-> track, isPlaying |-> isPlaying, currentTime |-> time]

\* a deck with no track, a loaded deck at rest, a deck playing its first
\* seconds and a deck playing 10 s into a track that mixes out at 15 s
LegacyDeckStates ==
    LET track == <<LegacyTrack(20, 0, 0, 0, 0)>>
    IN  {LegacyDeck(<<>>, FALSE, 0), LegacyDeck(track, FALSE, 0),
         LegacyDeck(track, TRUE, Sec(1)), LegacyDeck(track, TRUE, Sec(10))}

\* lines 178-191; a cue point or outro start of 0 is falsy
getMixOutPoint(track) ==
    IF track.cueMixOut # 0 THEN Sec(track.cueMixOut)
    ELSE IF track.outroStart # 0 THEN Sec(track.outroStart)
    ELSE (Sec(IF track.duration # 0 THEN track.duration ELSE 240) * 3) \div 4

\* lines 196-209
getMixInPoint(track) ==
    IF track.cueMixIn # 0 THEN Sec(track.cueMixIn)
    ELSE IF track.introStart # 0 THEN Sec(track.introStart)
    ELSE 0

\* lines 87-93 and 98-104: the test checkForTransition makes of one deck
LegacyInWindow(c, d) ==
    /\ c.deck[d].isPlaying
    /\ c.deck[d].track # <<>>
    /\ LET timeUntilMixOut == getMixOutPoint(c.deck[d].track[1]) - c.deck[d].currentTime
       IN  timeUntilMixOut <= Sec(LegacyCrossfadeDuration) /\ timeUntilMixOut > 0

\* the smooth curve of crossfade (lines 157-159) at step i, over 2 * steps^2
LegacyCurve(i) ==
    IF 2 * i < LegacySteps THEN 4 * i * i
    ELSE 2 * LegacySteps * LegacySteps - ((2 * LegacySteps - 2 * i) * (2 * LegacySteps - 2 * i))

LegacyCurveDen == 2 * LegacySteps * LegacySteps

\* lines 161-162: the two volume writes of step i
LegacyFadeWrite(c, t, i) ==
    [c EXCEPT !.volume =
        [d \in Decks |->
            IF d = t.to THEN (toEndVolume * LegacyCurve(i)) \div LegacyCurveDen
            ELSE IF d = t.from
                 THEN (t.fromStartVolume * (LegacyCurveDen - LegacyCurve(i))) \div LegacyCurveDen
            ELSE c.volume[d]]]

\* performTransition from its call to the await of toAudio.play() (lines
\* 119-129); with no track on the other deck it returns at once
performTransition(c, from) ==
    LET to == Other(from)
    IN  IF c.deck[to].track = <<>> THEN c
        ELSE [c EXCEPT !.transitionInProgress = TRUE,
                       !.audioTime = [@ EXCEPT ![to] = getMixInPoint(c.deck[to].track[1])],
                       !.volume = [@ EXCEPT ![to] = 0],
                       !.paused = [@ EXCEPT ![to] = FALSE],
                       !.transitions = Append(@, [from |-> from, to |-> to, phase |-> "play",
                                                  i |-> 0, fromStartVolume |-> 0,
                                                  wasPaused |-> c.paused[to]]),
                       !.started = @ + 1]

\* checkForTransition (lines 76-105)
checkForTransition(c) ==
    IF c.transitionInProgress THEN c
    ELSE LET afterA == IF LegacyInWindow(c, "A") THEN performTransition(c, "A") ELSE c
         IN  IF LegacyInWindow(afterA, "B") THEN performTransition(afterA, "B") ELSE afterA

legacyRest == <<transportVars, audioVars, navVars, masterVars, taskVars, inputVars, obsVars,
                startPc2, timers, phrase, initialVolume>>

\* new AutoDJController(config), and the deck states and audio elements of
\* the host: an element is playing exactly when its deck state says so
LegacyNew(enabled, deckA, deckB) ==
    /\ legacy = <<>>
    /\ legacy' = <<[enabled |-> enabled,
                    transitionInProgress |-> FALSE,
                    monitorInterval |-> FALSE,
                    deck |-> [d \in Decks |-> IF d = "A" THEN deckA ELSE deckB],
                    paused |-> [d \in Decks |->
                                  ~(IF d = "A" THEN deckA ELSE deckB).isPlaying],
                    audioTime |-> [d \in Decks |->
                                     (IF d = "A" THEN deckA ELSE deckB).currentTime],
                    volume |-> [d \in Decks |-> LegacyDen],
                    transitions |-> <<>>,
                    started |-> 0, rejected |-> 0, onTransition |-> 0]>>
    /\ UNCHANGED legacyRest

\* startMonitoring (lines 48-61), called while no interval is set
LegacyStartMonitoring ==
    /\ legacy # <<>>
    /\ ~legacy[1].monitorInterval
    /\ legacy[1].enabled
    /\ legacy' = <<[legacy[1] EXCEPT !.monitorInterval = TRUE]>>
    /\ UNCHANGED legacyRest

\* stopMonitoring (lines 66-71)
LegacyStopMonitoring ==
    /\ legacy # <<>>
    /\ legacy[1].monitorInterval
    /\ legacy' = <<[legacy[1] EXCEPT !.monitorInterval = FALSE]>>
    /\ UNCHANGED legacyRest

\* updateConfig({ enabled }) (lines 211-220)
LegacyUpdateConfig(enabled) ==
    /\ legacy # <<>>
    /\ legacy' = <<[legacy[1] EXCEPT
                      !.enabled = enabled,
                      !.monitorInterval = IF enabled THEN @ ELSE FALSE]>>
    /\ UNCHANGED legacyRest

\* the interval callback (line 58); a tick is left out once it would take the
\* number of performTransition calls beyond MaxLegacyTransitions
LegacyTick ==
    /\ legacy # <<>>
    /\ legacy[1].monitorInterval
    /\ LET after == checkForTransition(legacy[1])
       IN  /\ after.started <= MaxLegacyTransitions
           /\ legacy' = <<after>>
    /\ UNCHANGED legacyRest

\* the play promise of the incoming element resolves: crossfade is entered
\* (lines 148-152) and runs step 0 up to its sleep
LegacyPlayResolved(j) ==
    /\ legacy # <<>>
    /\ j \in DOMAIN legacy[1].transitions
    /\ legacy[1].transitions[j].phase = "play"
    /\ LET c == legacy[1]
           t == [c.transitions[j] EXCEPT !.phase = "fade", !.i = 0,
                                         !.fromStartVolume = c.volume[c.transitions[j].from]]
       IN  legacy' = <<[LegacyFadeWrite(c, t, 0) EXCEPT !.transitions[j] = t]>>
    /\ UNCHANGED legacyRest

\* the play promise is rejected: performTransition ends at line 129 with the
\* rejection, and nothing after the await runs; the element is as paused as
\* it was before the request
LegacyPlayRejected(j) ==
    /\ legacy # <<>>
    /\ j \in DOMAIN legacy[1].transitions
    /\ legacy[1].transitions[j].phase = "play"
    /\ legacy' = <<[legacy[1] EXCEPT !.transitions = RemoveAt(@, j),
                                     !.paused[legacy[1].transitions[j].to] =
                                          legacy[1].transitions[j].wasPaused,
                                     !.rejected = 1]>>
    /\ UNCHANGED legacyRest

\* a sleep of crossfade is over: the next step (lines 154-165), or past the
\* last step the end of crossfade and of performTransition (lines 167-169,
\* 134-137)
LegacyFadeStep(j) ==
    /\ legacy # <<>>
    /\ j \in DOMAIN legacy[1].transitions
    /\ legacy[1].transitions[j].phase = "fade"
    /\ LET c == legacy[1]
           t == c.transitions[j]
       IN  IF t.i < LegacySteps
           THEN legacy' = <<[LegacyFadeWrite(c, t, t.i + 1) EXCEPT !.transitions[j].i = t.i + 1]>>
           ELSE legacy' = <<[c EXCEPT !.paused[t.from] = TRUE,
                                      !.volume[t.from] = t.fromStartVolume,
                                      !.onTransition = 1,
                                      !.transitionInProgress = FALSE,
                                      !.transitions = RemoveAt(@, j)]>>
    /\ UNCHANGED legacyRest

LegacyInit == InitOf({<<>>}) /\ mode = "smooth_club" /\ volume = [d \in Decks |-> CurveDen]

LegacyNext ==
    \/ \E enabled \in BOOLEAN, deckA \in LegacyDeckStates, deckB \in LegacyDeckStates :
            LegacyNew(enabled, deckA, deckB)
    \/ LegacyStartMonitoring
    \/ LegacyStopMonitoring
    \/ \E enabled \in BOOLEAN : LegacyUpdateConfig(enabled)
    \/ LegacyTick
    \/ \E j \in 1..MaxLegacyTransitions : LegacyPlayResolved(j)
    \/ \E j \in 1..MaxLegacyTransitions : LegacyPlayRejected(j)
    \/ \E j \in 1..MaxLegacyTransitions : LegacyFadeStep(j)

LegacySpec == LegacyInit /\ [][LegacyNext]_vars

(***************************************************************************)
(* Properties                                                              *)
(***************************************************************************)
\* A call of executeCrossfade / the continuation of executeTransition is next to run.
CrossfadeCalled == run # <<>> /\ Head(run).op = "crossfade"
ContinuationNext == run # <<>> /\ Head(run).op = "afterCrossfade"

\* C1: executeCrossfade is mutually exclusive: at most one fade loop executes
\* in every reachable state, and a call made while a crossfade is in progress
\* returns without changing a deck's lifecycle state or volume and without
\* starting a second fade loop.
C1_MutualExclusion ==
    /\ [](Len(fades) <= 1)
    /\ [][(CrossfadeCalled /\ crossfadeInProgress) =>
            (/\ UNCHANGED <<deckState, volume, fades, crossfadeInProgress>>
             /\ run' # <<>> /\ Head(run').op = "afterCrossfade")]_vars

\* A call of executeCrossfade was skipped while a fade loop is between two steps.
C1_SkippedCall ==
    /\ ContinuationNext
    /\ Head(run).duration > 0
    /\ crossfadeInProgress
    /\ Len(fades) = 1
    /\ fades[1].phase = "loop"
    /\ fades[1].i > 0

\* C2: the cursor is advanced, and onTransition / onTrackChange are fired,
\* only after the crossfade of that transition has completed: never while a
\* crossfade is in progress, and never by a tick whose crossfade was skipped.
C2_AdvanceAfterCrossfade ==
    [][(advParity' # advParity \/ nTransition' # nTransition) =>
         ~crossfadeInProgress]_vars

\* C3: an approach to a mix-out point triggers executeTransition once: no
\* tick triggers it while the crossfade it started is in flight, and the
\* cursor never exceeds the number of crossfades that were begun.
C3_TriggeredOnce ==
    /\ [][nTrigger' # nTrigger => ~crossfadeInProgress]_vars
    /\ [](nTransition <= nTrigger /\ (fades # <<>> => nTransition < nTrigger))

\* The end-to-end scenario: a queue of two tracks whose first is LongTrack, Smooth Club.
E2EScenario ==
    /\ isRunning
    /\ queue = <<LongTrack, LongTrack>>
    /\ mode = "smooth_club"
    /\ currentIndex = 0
    /\ PlayingDeck = "A"

\* C4: in the end-to-end scenario the tick that finds deck A at position 152
\* triggers executeCrossfade('A', 'B', 8, 'smooth'), and once that crossfade
\* has completed the cursor is 1 and onTransition('A', 'B') has fired once.
C4_EndToEnd ==
    /\ [][(tickParity' # tickParity /\ E2EScenario /\ currentTime["A"] = Sec(152)) =>
            (/\ nTrigger' = nTrigger + 1
             /\ run' = <<Op("crossfade", "A", "B", 80, "smooth", 1)>>)]_vars
    /\ []((queue = <<LongTrack, LongTrack>> /\ mode = "smooth_club" /\ lastFade # <<>>
           /\ run = <<>>) =>
            (currentIndex = 1 /\ nTransition = 1 /\ lastTransition = <<"A", "B">>))

\* C5: a poll tick triggers a transition iff the controller is active, a deck
\* is playing, a next track exists and mixOutPoint minus the position of the
\* playing deck lies in (-1s, 0s]; any other tick with a next track present
\* leaves deck states, volumes, positions and the cursor unchanged.
C5_TickTriggers ==
    [][tickParity' # tickParity =>
         LET nextExists == currentIndex + 1 < Len(queue)
             inWindow ==
                 IF nextExists /\ PlayingDeck # "none"
                 THEN LET delta == AdjustedPlan.mixOutPoint - currentTime[PlayingDeck]
                      IN  delta <= 0 /\ delta > 0 - Sec(1)
                 ELSE FALSE
             triggers == isRunning /\ inWindow
         IN  /\ (nTrigger' = nTrigger + 1) <=> triggers
             /\ (nTrigger' = nTrigger) <=> ~triggers
             /\ triggers => (CrossfadeCalled' /\ Head(run').from = PlayingDeck)
             /\ (~triggers /\ nextExists) =>
                   UNCHANGED <<deckState, volume, currentTime, currentIndex, run>>]_vars

\* A tick found the playing deck exactly at its mix-out point and triggered.
C5_TriggeredAtMixOut ==
    /\ CrossfadeCalled
    /\ nTrigger = 1
    /\ ~crossfadeInProgress
    /\ currentTime[Head(run).from] = findMixOutPoint(TrackAt(currentIndex))

\* C6: the Master Controller calls loadNextTrack only on a deck that is
\* paused and takes no part in a crossfade.
C6_LoadAfterFadeOut ==
    lastLoad.byTransition => (lastLoad.wasPaused /\ ~lastLoad.inFade)

\* C7: a deck that is Playing has passed through Ready since its last load began.
C7_ReadyBeforePlaying ==
    \A d \in Decks : deckState[d] = "PLAYING" => wasReady[d]

\* the step that ends a fade loop (lines 122-128)
FadeCompletes == Len(fades) = 1 /\ fades[1].phase = "loop" /\ fades' = <<>>

\* C8: both decks are Transitioning for the whole fade; when the fade
\* completes fromDeck is Complete, paused and back at its pre-fade volume,
\* toDeck is Playing at its pre-fade volume and the flag is cleared.
C8_CrossfadeCompletes ==
    /\ [](\A j \in DOMAIN fades :
            deckState[fades[j].from] = "TRANSITIONING"
            /\ deckState[fades[j].to] = "TRANSITIONING")
    /\ [][FadeCompletes =>
            LET f == fades[1]
            IN  /\ deckState'[f.from] = "COMPLETE"
                /\ paused'[f.from]
                /\ volume'[f.from] = f.startVolume
                /\ deckState'[f.to] = "PLAYING"
                /\ volume'[f.to] = f.targetVolume
                /\ ~crossfadeInProgress']_vars

\* C9: while a crossfade is in progress the state of a Transitioning deck is
\* changed by nothing but the end of that crossfade.
C9_TransitioningOwned ==
    [][\A d \in Decks :
         (crossfadeInProgress /\ deckState[d] = "TRANSITIONING"
          /\ deckState'[d] # "TRANSITIONING") => ~crossfadeInProgress']_vars

\* C10: advanceQueue never decreases the cursor: below the last index it
\* adds one and returns true; at the last index, or with an empty queue, it
\* returns false and leaves the cursor unchanged.
C10_AdvanceQueue ==
    [][advParity' # advParity =>
         /\ currentIndex' >= currentIndex
         /\ IF currentIndex < Len(queue) - 1
            THEN currentIndex' = currentIndex + 1 /\ advResult' = "true"
            ELSE currentIndex' = currentIndex /\ advResult' = "false"]_vars

\* advanceQueue walked a queue to its last index and was then refused there.
C10_RefusedAtEnd ==
    /\ Len(queue) > 1
    /\ currentIndex = Len(queue) - 1
    /\ advResult = "false"
\* a call of a mutating QueueNavigator operation
NavCalled(op) == lastNavOp' # lastNavOp /\ lastNavOp'.op = op

\* C11 as stated: the cursor changes only by setQueue (to 0) or by advancing
\* by exactly one, whatever public operation is called.
C11_OnlySetQueueOrAdvance ==
    [][currentIndex' # currentIndex =>
         \/ NavCalled("setQueue") /\ currentIndex' = 0
         \/ NavCalled("advanceQueue") /\ currentIndex' = currentIndex + 1]_vars

\* C11 amended: the cursor changes only by setQueue or reset (to 0) or by
\* advancing by exactly one; it never wraps and never leaves the queue.
C11_CursorMoves ==
    /\ [][currentIndex' # currentIndex =>
            \/ NavCalled("setQueue") /\ currentIndex' = 0
            \/ NavCalled("reset") /\ currentIndex' = 0
            \/ NavCalled("advanceQueue") /\ currentIndex' = currentIndex + 1]_vars
    /\ [][NavCalled("advanceQueue") => currentIndex' >= currentIndex]_vars
    /\ [](currentIndex = 0 \/ currentIndex < Len(queue))

\* reset() took the cursor back from the last index of a queue that was not replaced.
C11_ResetMovedBack ==
    /\ lastNavOp.op = "reset"
    /\ lastNavOp.before = Len(queue) - 1
    /\ lastNavOp.before > 0
    /\ currentIndex = 0

\* the step at which executeCrossfade throws: the play request of the incoming
\* deck is rejected, at once or by a later media task
CrossfadeFails ==
    \/ run # <<>> /\ Head(run).op = "fadeFailed"
    \/ /\ CrossfadeCalled /\ ~crossfadeInProgress /\ paused[Head(run).to]
       /\ ~crossfadeInProgress'

\* C12: a transition whose executeCrossfade fails advances nothing: the
\* failure itself changes neither the cursor nor the callbacks' counts, runs
\* nothing more of the transition and leaves isActive() and the poll timer
\* alone, and the cursor is still the one the transition was triggered at.
C12_FailedTransitionAdvancesNothing ==
    /\ [][CrossfadeFails =>
            /\ currentIndex' = currentIndex
            /\ nTransition' = nTransition
            /\ advParity' = advParity
            /\ (run' = <<>> \/ Head(run').op # "afterCrossfade")
            /\ isRunning' = isRunning
            /\ monitorInterval' = monitorInterval
            /\ pollRem' = pollRem]_vars
    /\ []((run # <<>> /\ Head(run).op = "fadeFailed" /\ fades # <<>>
           /\ fades[1].phase = "play") => currentIndex = fades[1].next - 1)

\* C13: start() with an empty queue does not begin: no deck is loaded or
\* played, no poll timer exists, no callback has fired and isActive() is false.
C13_EmptyQueueDoesNotBegin ==
    (setlist = <<>> /\ startPc # "idle") =>
        /\ startPc = "done"
        /\ \A d \in Decks :
              /\ deckState[d] = "IDLE"
              /\ media[d] = "empty"
              /\ deckTrack[d] = <<>>
              /\ paused[d]
              /\ playPending[d] = {}
        /\ ~monitorInterval
        /\ ~isRunning
        /\ nTrigger = 0 /\ nTransition = 0 /\ nComplete = 0
        /\ run = <<>> /\ fades = <<>>

\* start() has returned from a call with an empty queue.
C13_StartedEmpty ==
    /\ setlist = <<>>
    /\ startPc = "done"
    /\ lastNavOp.op = "setQueue"
    /\ queue = <<>>

\* C14: start() with one track loads deck A only and plays it; deck B is never
\* loaded, no tick calls executeCrossfade, and the first tick that finds deck A
\* playing stops the controller and fires onComplete, which fires once.
C14_SingleTrack ==
    /\ [](Len(setlist) = 1 =>
            /\ deckState["B"] = "IDLE" /\ media["B"] = "empty" /\ deckTrack["B"] = <<>>
            /\ nTrigger = 0 /\ nTransition = 0 /\ fades = <<>>
            /\ \A k \in DOMAIN run : run[k].op \notin {"crossfade", "startLoadedB"}
            /\ nComplete <= 1
            /\ (isRunning => (deckState["A"] = "PLAYING" /\ deckTrack["A"] = <<0>>
                              /\ ~paused["A"] /\ nComplete = 0)))
    /\ [][(Len(setlist) = 1 /\ tickParity' # tickParity /\ isRunning
            /\ PlayingDeck = "A") =>
            (~isRunning' /\ ~monitorInterval' /\ nComplete' = 1)]_vars

\* The first tick of a one-track session has stopped the controller.
C14_CompletedOnFirstTick ==
    /\ Len(setlist) = 1
    /\ nComplete = 1
    /\ ~isRunning
    /\ ~monitorInterval
    /\ currentTime["A"] = Ms(PollIntervalMs)

\* C15: stop() ends scheduling: when it returns isActive() is false and the
\* poll timer is gone, and no tick after it triggers a transition or fires
\* onComplete.
C15_StopEndsScheduling ==
    /\ [][(~stopCalled /\ stopCalled') => (~isRunning' /\ ~monitorInterval')]_vars
    /\ [][(stopCalled /\ tickParity' # tickParity) =>
            (nTrigger' = nTrigger /\ nComplete' = nComplete)]_vars

\* a fade loop is between two of its steps
FadeLoopRunning == fades # <<>> /\ fades[1].phase = "loop"

\* C16: stop() does not abort a crossfade that is executing: the call leaves
\* the fade, the volumes and the deck states alone; the loop then takes every
\* remaining step in order and ends only after step 60, with the outgoing deck
\* Complete, paused and at its restored volume and the incoming deck Playing
\* at its target volume; and it does end.
C16_StopDoesNotAbortFade ==
    /\ [][(~stopCalled /\ stopCalled') =>
            UNCHANGED <<fades, volume, deckState, paused, crossfadeInProgress>>]_vars
    /\ [][(stopCalled /\ FadeLoopRunning) =>
            \/ /\ FadeLoopRunning'
               /\ fades'[1].i \in {fades[1].i, fades[1].i + 1}
               /\ fades'[1].startVolume = fades[1].startVolume
               /\ fades'[1].targetVolume = fades[1].targetVolume
               /\ (fades'[1].i = fades[1].i + 1 =>
                     volume'[fades[1].to] =
                        (fades[1].targetVolume * applyCurve(fades[1].i + 1, fades[1].curve))
                            \div CurveDen)
            \/ /\ fades' = <<>>
               /\ fades[1].i = steps
               /\ deckState'[fades[1].from] = "COMPLETE"
               /\ paused'[fades[1].from]
               /\ volume'[fades[1].from] = fades[1].startVolume
               /\ deckState'[fades[1].to] = "PLAYING"
               /\ volume'[fades[1].to] = fades[1].targetVolume
               /\ ~crossfadeInProgress']_vars
    /\ ((stopCalled /\ FadeLoopRunning) ~> (stopCalled /\ fades = <<>> /\ lastFade # <<>>))

\* stop() was called in the middle of a fade loop, which went on: the
\* controller is stopped and the loop is at its last step.
C16_StoppedMidFade ==
    /\ stopCalled
    /\ ~isRunning
    /\ FadeLoopRunning
    /\ fades[1].i = steps
    /\ nTransition = 0

\* the error event of a load of deck d
LoadFails(d) == media[d] = "loading" /\ media'[d] = "error"

\* C17: on a load error loadNextTrack rejects and the deck is Idle; start()
\* awaiting that load fails, and the failure of a background load changes
\* neither the cursor nor the callbacks' counts, leaves the controller active
\* and the poll timer armed.
C17_LoadError ==
    [][\A d \in Decks : LoadFails(d) =>
         /\ deckState'[d] = "IDLE"
         /\ loadWaiter'[d] = "none"
         /\ (loadWaiter[d] = "start" => startPc' = "failed")
         /\ \A k \in DOMAIN run' : run'[k].op = "fadeFailed"
         /\ (loadWaiter[d] = "transition" =>
               /\ currentIndex' = currentIndex
               /\ nTransition' = nTransition
               /\ startPc' = startPc
               /\ isRunning' = isRunning
               /\ monitorInterval' = monitorInterval
               /\ pollRem' = pollRem)]_vars

\* The background load of a transition has failed under an active controller.
C17_BackgroundLoadFailed ==
    /\ lastLoad.byTransition
    /\ media[lastLoad.deck] = "error"
    /\ deckState[lastLoad.deck] = "IDLE"
    /\ isRunning
    /\ monitorInterval
    /\ run = <<>>
    /\ fades = <<>>

\* C18: when play() is refused, startPlayback rethrows to start(), which goes
\* no further, and the deck is Ready afterwards, never Playing.
C18_PlayRefused ==
    startPc = "playFailed" =>
        /\ deckState["A"] = "READY"
        /\ paused["A"]
        /\ ~isRunning
        /\ ~monitorInterval
        /\ \A k \in DOMAIN run : run[k].op # "startPlaying"

\* start() was rejected by a refused play() after both decks were loaded.
C18_StartRejected ==
    /\ startPc = "playFailed"
    /\ deckState = [d \in Decks |-> "READY"]
    /\ run = <<>>

\* C19: mixOutPoint is cuePoints.mixOut whenever the cue is present, whatever
\* its value; otherwise structure.outro.start whenever an outro is present;
\* otherwise 0.8 x duration, with 240 for an absent duration.
C19_MixOutPoint ==
    lastPlan # <<>> =>
        LET a == setlist[1]
        IN  lastPlan[1].mixOutPoint =
                IF a.hasCue THEN Sec(a.mixOut)
                ELSE IF a.hasOutro THEN Sec(a.outroStart)
                ELSE IF a.duration = 0 THEN Sec(192)
                ELSE (8 * Sec(a.duration)) \div 10

\* C20: mixInPoint is cuePoints.mixIn whenever the cue is present, a cue at 0
\* included; otherwise structure.intro.end whenever an intro is present;
\* otherwise 0.
C20_MixInPoint ==
    lastPlan # <<>> =>
        LET b == setlist[2]
        IN  lastPlan[1].mixInPoint =
                IF b.hasCue THEN Sec(b.mixIn)
                ELSE IF b.hasIntro THEN Sec(b.introEnd)
                ELSE 0

C22_Preset ==
    LET preset == [smooth_club |-> [d |-> 80, c |-> "smooth"],
                   high_energy |-> [d |-> 40, c |-> "exponential"],
                   latin_salsa |-> [d |-> 60, c |-> "smooth"]]
    IN  mode # "cinematic_ai" =>
            /\ \A i \in 1..Len(setlist), j \in 1..Len(setlist), pos \in ArcPositions :
                    LET plan == calculateTransitionPoint(setlist[i], setlist[j], mode)
                    IN  adjustTransitionForArc(plan, pos, mode) = plan
            /\ CrossfadeCalled =>
                    /\ Head(run).duration = preset[mode].d
                    /\ Head(run).curve = preset[mode].c

\* executeCrossfade is called in High Energy mode at the peak of the arc,
\* where Cinematic AI would shorten the fade
C22_PresetHandedOver ==
    /\ CrossfadeCalled
    /\ mode = "high_energy"
    /\ getArcPosition = "peak"
    /\ Head(run).duration = 40
    /\ Head(run).curve = "exponential"
\* C23: in Cinematic AI mode, for every base crossfade duration, the
\* adjusted plan has max(base, 10 s) and smooth at the opener, 0.9 x base and
\* smooth in the buildup, 0.7 x base and exponential at the peak, 1.1 x base
\* and smooth in the cooldown, max(base, 12 s) and smooth at the closer; the
\* opener and the closer never shorten the fade.
C23_CinematicShaping ==
    (lastPlan # <<>> /\ lastPlan[2] = "cinematic_ai") =>
        LET adjusted == lastPlan[1]
            pos == lastPlan[3]
            base == lastPlan[4].crossfadeDuration
            d == adjusted.crossfadeDuration
        IN  /\ pos = "opener" =>
                /\ d = (IF base >= 100 THEN base ELSE 100)
                /\ d >= base
                /\ adjusted.curve = "smooth"
            /\ pos = "buildup" => (10 * d = 9 * base /\ adjusted.curve = "smooth")
            /\ pos = "peak" => (10 * d = 7 * base /\ adjusted.curve = "exponential")
            /\ pos = "cooldown" => (10 * d = 11 * base /\ adjusted.curve = "smooth")
            /\ pos = "closer" =>
                /\ d = (IF base >= 120 THEN base ELSE 120)
                /\ d >= base
                /\ adjusted.curve = "smooth"

\* the 12 s linear plan adjusted at the peak in Cinematic AI mode: 8.4 s,
\* exponential
C23_PeakShortened ==
    /\ lastPlan # <<>>
    /\ lastPlan[2] = "cinematic_ai"
    /\ lastPlan[3] = "peak"
    /\ lastPlan[4].crossfadeDuration = 120
    /\ lastPlan[4].curve = "linear"
    /\ lastPlan[1].crossfadeDuration = 84
    /\ lastPlan[1].curve = "exponential"
\* C24 as stated: with no arc label and a queue of 10 tracks getArcPosition()
\* is opener at cursor 0, buildup at 2, peak at 5, cooldown at 8 and closer
\* at 9.
C24_ArcOfTen ==
    (~setlistArcType.present /\ Len(queue) = 10) =>
        /\ currentIndex = 0 => getArcPosition = "opener"
        /\ currentIndex = 2 => getArcPosition = "buildup"
        /\ currentIndex = 5 => getArcPosition = "peak"
        /\ currentIndex = 8 => getArcPosition = "cooldown"
        /\ currentIndex = 9 => getArcPosition = "closer"

\* C24 amended: with no arc label getArcPosition() follows the bands of
\* progress = (cursor + 1) / length: below 0.15 opener, below 0.4 buildup,
\* below 0.7 peak, below 0.9 cooldown, otherwise closer; for a queue of 10
\* that is opener at cursor 0, buildup at 1 and 2, peak at 3 to 5, cooldown
\* at 6 and 7, closer at 8 and 9.
C24_ArcBands ==
    (~setlistArcType.present /\ Len(queue) > 0) =>
        LET c == currentIndex + 1
            n == Len(queue)
            pos == getArcPosition
        IN  /\ pos = "opener" <=> 100 * c < 15 * n
            /\ pos = "buildup" <=> (100 * c >= 15 * n /\ 10 * c < 4 * n)
            /\ pos = "peak" <=> (10 * c >= 4 * n /\ 10 * c < 7 * n)
            /\ pos = "cooldown" <=> (10 * c >= 7 * n /\ 10 * c < 9 * n)
            /\ pos = "closer" <=> 10 * c >= 9 * n
            /\ n = 10 =>
                pos = <<"opener", "buildup", "buildup", "peak", "peak", "peak",
                        "cooldown", "cooldown", "closer", "closer">>[c]

\* cursor 8 of 10 without a label: progress is 0.9 and the position closer
C24_CursorEightIsCloser ==
    /\ ~setlistArcType.present
    /\ Len(queue) = 10
    /\ currentIndex = 8
    /\ getArcPosition = "closer"
\* C25: in every reachable state of the navigator isComplete() is true
\* exactly when getNextTrack() returns no track and exactly when hasNext()
\* is false, the empty and the single-track queue included.
C25_CompleteIffNoNext ==
    /\ isComplete <=> getNextTrack = <<>>
    /\ isComplete <=> ~hasNext

\* a single-track queue has been set: complete, no next track
C25_SingleTrackComplete ==
    /\ lastNavOp.op = "setQueue"
    /\ Len(queue) = 1
    /\ isComplete
    /\ getNextTrack = <<>>
    /\ ~hasNext
\* C26: each of the three curves maps progress 0 to exactly 0 and progress 1
\* to exactly 1, and smooth maps 0.5 to 0.5; so after the first step of a
\* fade the outgoing deck is at its start volume and the incoming deck at 0,
\* and after the last step the outgoing deck is at 0 and the incoming deck
\* at its target volume.
C26_CurveBoundaries ==
    /\ \A c \in Curves : applyCurve(0, c) = 0 /\ applyCurve(steps, c) = CurveDen
    /\ 2 * applyCurve(steps \div 2, "smooth") = CurveDen
    /\ \A j \in DOMAIN fades :
         LET f == fades[j]
         IN  f.phase = "loop" =>
                /\ f.i = 0 => (volume[f.from] = f.startVolume /\ volume[f.to] = 0)
                /\ f.i = steps => (volume[f.from] = 0 /\ volume[f.to] = f.targetVolume)
                /\ (f.curve = "smooth" /\ 2 * f.i = steps) =>
                        /\ volume[f.from] = f.startVolume \div 2
                        /\ volume[f.to] = f.targetVolume \div 2

\* the last step of a fade towards a deck whose target volume is one half
C26_LastStep ==
    \E j \in DOMAIN fades :
        /\ fades[j].phase = "loop"
        /\ fades[j].i = steps
        /\ fades[j].targetVolume = CurveDen \div 2
        /\ volume[fades[j].to] = CurveDen \div 2
        /\ volume[fades[j].from] = 0
\* a start() call: either it returned at the isRunning guard or it went on
\* to setQueue
StartCalled ==
    \/ startObs'.refused # startObs.refused
    \/ lastNavOp' # lastNavOp /\ lastNavOp'.op = "setQueue"

\* C27: when start() succeeds on a queue of two or more tracks, deck A is
\* Playing with queue[0], deck B is Ready with queue[1], the cursor is 0 and
\* onTrackChange(queue[0], 'A') has fired; the poll is started only once both
\* loads and the start of playback have completed; and a start() call made
\* while the controller is running changes nothing.
C27_Start ==
    [][/\ (~isRunning /\ isRunning' /\ Len(queue) >= 2) =>
            /\ deckState'["A"] = "PLAYING" /\ deckTrack'["A"] = <<0>> /\ ~paused'["A"]
            /\ deckState'["B"] = "READY" /\ deckTrack'["B"] = <<1>>
            /\ currentIndex' = 0
            /\ startObs'.trackChange = <<0, "A">>
       /\ (~monitorInterval /\ monitorInterval' /\ Len(queue) >= 2) =>
            /\ media'["A"] = "ready" /\ media'["B"] = "ready"
            /\ deckState'["A"] = "PLAYING" /\ playPending'["A"] = {}
            /\ isRunning'
       /\ (isRunning /\ StartCalled) =>
            UNCHANGED <<transportVars, audioVars, navVars, masterVars, taskVars, inputVars,
                        lastNavOp>>]_vars

\* start() has succeeded on two or more tracks, and a further start() call
\* has returned at the guard before any transition
C27_StartedAndCalledAgain ==
    /\ isRunning
    /\ startObs = [trackChange |-> <<0, "A">>, refused |-> 1]
    /\ Len(queue) >= 2
    /\ currentIndex = 0
    /\ deckState = [d \in Decks |-> IF d = "A" THEN "PLAYING" ELSE "READY"]
    /\ deckTrack = [d \in Decks |-> IF d = "A" THEN <<0>> ELSE <<1>>]
    /\ nTrigger = 0
\* C28: an incoming deck that is not playing when the crossfade starts is
\* started at volume 0: from the play request until the first fade step has
\* been applied, the incoming deck is never playing at a non-zero volume.
C28_IncomingStartsSilent ==
    \A j \in DOMAIN fades :
        (fades[j].phase = "play" /\ ~paused[fades[j].to]) => volume[fades[j].to] = 0
\* C29: whenever Auto-DJ is active and no transition is in flight, the deck
\* that is playing holds queue[cursor] and, if cursor + 1 is within the
\* queue, the other deck holds (or is loading) queue[cursor + 1]; the cursor
\* moves by one track per crossfade, so that no queue track is skipped.
C29_DecksFollowCursor ==
    (isRunning /\ fades = <<>> /\ run = <<>> /\ ~crossfadeInProgress
              /\ PlayingDeck # "none") =>
        /\ deckTrack[PlayingDeck] = <<currentIndex>>
        /\ currentIndex + 1 < Len(queue) =>
                deckTrack[Other(PlayingDeck)] = <<currentIndex + 1>>
\* C30: a crossfade performs steps = 60 discrete steps, each followed by a
\* wait of duration / 60, so that the waits of one crossfade add up to the
\* requested duration and the outgoing deck is paused when exactly that
\* duration has elapsed.
C30_FadeLastsDuration ==
    lastFade # <<>> =>
        /\ lastFade[1].stepDuration * steps = Tenths(lastFade[1].duration)
        /\ lastFade[1].waited = Tenths(lastFade[1].duration)
\* the timestamps k * phraseLength below the duration, in increasing order
\* from 0, in units of 1/bpm seconds
PhraseTimestamps(bpm, duration, phraseBars) ==
    IF bpm = 0 \/ duration = 0 THEN <<>>
    ELSE LET ks == {k \in 0..MaxBoundaries : k * phraseLength(phraseBars) < duration * bpm}
         IN  [k \in 1..Cardinality(ks) |-> (k - 1) * phraseLength(phraseBars)]

\* C31: detectPhraseBoundaries terminates and returns exactly the timestamps
\* k * phraseBars * 4 * (60 / bpm), k = 0, 1, 2, ..., that are below the
\* duration of the track, in increasing order from 0, for every bpm,
\* duration and phraseBars; it returns the empty array when bpm or duration
\* is missing.
C31_PhraseBoundaries ==
    (phrase # <<>>) ~>
        (/\ phrase # <<>>
         /\ phrase[1].pc = "returned"
         /\ phrase[1].boundaries =
                PhraseTimestamps(phrase[1].bpm, phrase[1].duration, phrase[1].phraseBars))
\* C32: at most one poll timer exists at any time: of two overlapping
\* start() calls only one passes the already-running guard, no second
\* interval is created, and stop() leaves no timer behind.
C32_OneTimer ==
    /\ startPc2 = "idle"
    /\ timers <= 1
    /\ ~monitorInterval => timers = 0
\* C33: onComplete fires at most once per start(), and only with the cursor
\* at the last index of the queue; it never fires while a crossfade is in
\* progress, nor before the last track has been faded in.
C33_OnCompleteOnce ==
    [][nComplete' # nComplete =>
          /\ nComplete' = 1
          /\ currentIndex = Len(queue) - 1
          /\ ~crossfadeInProgress
          /\ fades = <<>>
          /\ PlayingDeck # "none"
          /\ deckTrack[PlayingDeck] = <<Len(queue) - 1>>
          /\ Len(queue) > 1 =>
                (lastFade # <<>> /\ lastFade[1].to = PlayingDeck
                                /\ lastFade[1].next = Len(queue) - 1)]_vars
\* C34: with fair poll ticks, every load and play request succeeding and
\* the playing deck advancing to the end of its track, a started Auto-DJ
\* eventually fires onComplete and becomes inactive, with the last track of
\* the queue on the playing deck when it does; it never stays active for
\* ever with no deck playing.
C34_EventuallyComplete ==
    /\ isRunning ~> (~isRunning /\ nComplete = 1)
    /\ ~<>[](isRunning /\ PlayingDeck = "none")
    /\ [][nComplete' # nComplete
            => (PlayingDeck # "none" /\ deckTrack[PlayingDeck] = <<Len(queue) - 1>>)]_vars
\* C35: throughout every crossfade, whatever the curve, the volume of each
\* deck stays between 0 and the volume the deck had before the fade, and
\* whenever no crossfade is running each deck is back at the volume it had
\* before its first fade.  The last conjunct bounds the two volume formulas
\* at every step of every curve, for the volumes a session starts from.
C35_VolumeBounds ==
    /\ \A d \in Decks : volume[d] >= 0 /\ volume[d] <= initialVolume[d]
    /\ \A j \in DOMAIN fades :
            /\ fades[j].startVolume = initialVolume[fades[j].from]
            /\ fades[j].targetVolume = initialVolume[fades[j].to]
    /\ fades = <<>> => volume = initialVolume
    /\ startPc = "idle" =>
         \A c \in Curves, i \in 0..steps, d \in Decks :
            /\ FadeOutVolume(initialVolume[d], i, c) \in 0..initialVolume[d]
            /\ FadeInVolume(initialVolume[d], i, c) \in 0..initialVolume[d]

\* a fade from B back to A has completed after the fade from A to B, with
\* deck B resting at one half
C35_BackAndForth ==
    /\ lastFade # <<>>
    /\ lastFade[1].from = "B"
    /\ lastFade[1].i = steps
    /\ fades = <<>>
    /\ initialVolume["B"] = CurveDen \div 2
    /\ volume = initialVolume
\* C36: a deck is in TRANSITIONING only while crossfadeInProgress is set; once
\* executeCrossfade has returned or thrown, the flag is cleared and neither
\* deck is left in TRANSITIONING.
C36_TransitioningUnderFlag ==
    \A d \in Decks : deckState[d] = "TRANSITIONING" => crossfadeInProgress
\* the place of an arc position in the order opener < buildup < peak <
\* cooldown < closer
ArcRank(pos) ==
    CASE pos = "opener" -> 0
      [] pos = "buildup" -> 1
      [] pos = "peak" -> 2
      [] pos = "cooldown" -> 3
      [] pos = "closer" -> 4
\* C37: while the queue and its arc label stay the same, a step that moves
\* the cursor forward never moves getArcPosition() backwards in the order
\* opener < buildup < peak < cooldown < closer, whatever the length of the
\* queue and whatever the label (absent, or including any of the keywords,
\* or none of them).
C37_ArcNeverBackwards ==
    [][(queue' = queue /\ setlistArcType' = setlistArcType /\ currentIndex' > currentIndex)
          => ArcRank(ArcPositionOf(setlistArcType', currentIndex', Len(queue')))
                >= ArcRank(getArcPosition)]_vars

\* advanceQueue() has just moved the cursor of a queue labelled with a
\* keyword of no arc, and the position went from buildup to peak
C37_AdvancedIntoPeak ==
    /\ lastNavOp.op = "advanceQueue"
    /\ lastNavOp.before < currentIndex
    /\ setlistArcType = ArcLabel(TRUE, FALSE, FALSE, FALSE)
    /\ ArcPositionOf(setlistArcType, lastNavOp.before, Len(queue)) = "buildup"
    /\ getArcPosition = "peak"
\* C38: for every plan, arc position and mode, the plan returned by
\* adjustTransitionForArc has the mixOutPoint, mixInPoint and beatAlignment
\* of the plan passed in, the plan passed in is as it was, and the queue and
\* its cursor are unchanged by the call; the mix-out point that the trigger
\* test reads is the unadjusted one.
C38_OnlyDurationAndCurve ==
    [][lastPlan' # lastPlan =>
          LET returned == lastPlan'[1]
              plan == lastPlan'[4]
              after == lastPlan'[5]
          IN  /\ returned.mixOutPoint = plan.mixOutPoint
              /\ returned.mixInPoint = plan.mixInPoint
              /\ returned.beatAlignment = plan.beatAlignment
              /\ DOMAIN returned = DOMAIN plan
              /\ after = plan
              /\ currentIndex' = currentIndex
              /\ queue' = queue
              /\ setlistArcType' = setlistArcType]_vars

\* a Cinematic AI cooldown has lengthened a 10 s linear fade of a plan that
\* mixes out at 192 s and in at 2 s
C38_CooldownAdjusted ==
    /\ lastPlan # <<>>
    /\ lastPlan[2] = "cinematic_ai"
    /\ lastPlan[3] = "cooldown"
    /\ lastPlan[4].mixOutPoint = Sec(192)
    /\ lastPlan[4].mixInPoint = Sec(2)
    /\ lastPlan[4].crossfadeDuration = 100
    /\ lastPlan[4].curve = "linear"
    /\ lastPlan[1].crossfadeDuration = 110
    /\ lastPlan[1].curve = "smooth"
    /\ lastPlan[1].mixOutPoint = Sec(192)
\* C39: in the components/AutoDJController at most one performTransition is
\* in flight at any time, also after a tick that finds both decks playing
\* inside their windows, and transitionInProgress is set only while one is
\* in flight: it is cleared after every attempt, also when the play request
\* of the incoming deck is rejected.
C39_OneTransitionInFlight ==
    legacy # <<>> =>
        /\ Len(legacy[1].transitions) <= 1
        /\ legacy[1].transitions = <<>> => ~legacy[1].transitionInProgress
====
